---- MODULE Spec2Model ----
(***************************************************************************)
(* The multi-agent conversation orchestrator of the chat store             *)
(* (src/src/lib/store/project-store.ts, second module of the file):        *)
(* sendMessage, callAI, runAgentLoop, executeToolCall, parseToolCalls,     *)
(* parseThinking and stopGeneration, with the collaborators they call      *)
(* (preview store, version store, agent registry, message table).          *)
(*                                                                         *)
(* Strings of the program are TLA+ strings.  The program's Chinese         *)
(* literals are written as ASCII stand-ins; the comment beside each names  *)
(* the literal.  A raw model response is a sequence of segments (plain     *)
(* text, a reasoning block, a TOOL_CALLS sentinel block, a <tools> block); *)
(* the parsers work on the segments the way the regular expressions of the *)
(* source work on the text.                                                *)
(***************************************************************************)
EXTENDS Integers, Sequences, FiniteSets, TLC

(***************************************************************************)
(* Bounds of the model.                                                    *)
(***************************************************************************)
\* Number of model calls of one turn whose response the model provider
\* chooses freely; later calls of a "free" turn are answered in plain text.
MaxFresh == 1
\* Longest list of tool calls in one freely chosen response.
MaxToolCalls == 2
\* Most turns of one conversation, where turns follow one another.
MaxTurns == 2
\* Most commands queued, most executeCommand calls, most boots of the sandbox.
MaxCommands == 2
MaxRuns == 2
MaxBoots == 2
\* Most pieces of a text given to parseMentions.
MaxPieces == 2
\* Most fragments of a provider stream.
MaxFragments == 2
\* The project changes of the chat panel and the deleteMessage calls.
MaxChanges == 2
MaxDeletes == 1

(***************************************************************************)
(* Program constants.                                                      *)
(***************************************************************************)
maxLoops == 100
maxDelegationRounds == 5

\* JavaScript's undefined; `${undefined}` prints as this text.
Undefined == "undefined"
\* JavaScript's null, for the store's nullable fields.
Null == "null"

(***************************************************************************)
(* Agent registry (src/src/lib/agents/config.ts).                          *)
(***************************************************************************)
DEFAULT_AGENT_ID == "engineer"

AgentIds == {"leader", "pm", "engineer", "architect", "analyst", "seo"}

\* name: ASCII stand-ins of the native display names.
AGENTS == [id \in AgentIds |->
  CASE id = "leader"    -> [id |-> id, name |-> "TeamLeader",
                            tools |-> <<"write_file", "read_file", "list_directory", "search_files",
                                        "run_command", "run_preview", "delegate_task">>]
    [] id = "pm"        -> [id |-> id, name |-> "ProductManager",
                            tools |-> <<"write_file", "read_file", "list_directory", "search_files">>]
    [] id = "engineer"  -> [id |-> id, name |-> "Engineer",
                            tools |-> <<"write_file", "read_file", "list_directory", "search_files",
                                        "run_command", "run_preview">>]
    [] id = "architect" -> [id |-> id, name |-> "Architect",
                            tools |-> <<"read_file", "list_directory", "search_files">>]
    [] id = "analyst"   -> [id |-> id, name |-> "DataAnalyst",
                            tools |-> <<"write_file", "read_file", "run_command">>]
    [] OTHER            -> [id |-> id, name |-> "SEOExpert",
                            tools |-> <<"write_file", "read_file", "list_directory", "search_files">>]]

\* Get agent by ID, returns engineer as fallback.
getAgent(id) == IF id \in AgentIds THEN AGENTS[id] ELSE AGENTS[DEFAULT_AGENT_ID]

(***************************************************************************)
(* Values.                                                                 *)
(***************************************************************************)
\* A field of a JavaScript object; a missing field reads as undefined.
Get(obj, field) == IF field \in DOMAIN obj THEN obj[field] ELSE Undefined

\* x || d on strings: the empty string and undefined are falsy.
OrElse(x, d) == IF x = Undefined \/ x = "" THEN d ELSE x

\* The empty object {}.
EmptyObj == [f \in {} |-> Undefined]

RECURSIVE JoinWith(_, _)
\* array.join(sep), kept as the list of the joined parts.
JoinWith(parts, sep) ==
  IF Len(parts) <= 1 THEN parts
  ELSE << Head(parts), sep >> \o JoinWith(Tail(parts), sep)

RECURSIVE Concat(_)
\* The strings of a list, concatenated.
Concat(parts) == IF parts = <<>> THEN "" ELSE Head(parts) \o Concat(Tail(parts))

\* Segments of a raw response.
TextSeg(t)      == [kind |-> "text",     text |-> t,  calls |-> <<>>, obj |-> EmptyObj]
ThinkSeg(t)     == [kind |-> "think",    text |-> t,  calls |-> <<>>, obj |-> EmptyObj]
ThinkingSeg(t)  == [kind |-> "thinking", text |-> t,  calls |-> <<>>, obj |-> EmptyObj]
\* \n<!--TOOL_CALLS:[{id, name, arguments}, ...]-->
SentinelSeg(cs) == [kind |-> "sentinel", text |-> "", calls |-> cs,   obj |-> EmptyObj]
\* <tools>{"name": ..., "arguments": {...}}</tools>
ToolsSeg(o)     == [kind |-> "tools",    text |-> "", calls |-> <<>>, obj |-> o]

\* The argument string of an encoded tool call: the JSON text of an object,
\* a text JSON.parse rejects, or the empty string.
JsonArgs(o) == [tag |-> "json",  obj |-> o,        text |-> ""]
BadArgs     == [tag |-> "bad",   obj |-> EmptyObj, text |-> "{\"path\": "]
NoArgs      == [tag |-> "empty", obj |-> EmptyObj, text |-> ""]

\* A text that holds the characters '-->' (an HTML comment's end).
ArrowContent == "<!-- x -->"

\* The JSON text of a sentinel block holds '-->': a string of some call's
\* arguments does.
HoldsArrow(calls) ==
  \E n \in 1..Len(calls) :
    /\ calls[n].arguments.tag = "json"
    /\ \E f \in DOMAIN calls[n].arguments.obj : calls[n].arguments.obj[f] = ArrowContent

HasKind(segs, k) == \E n \in 1..Len(segs) : segs[n].kind = k
FirstOfKind(segs, k) == segs[CHOOSE n \in 1..Len(segs) :
                              segs[n].kind = k /\ \A m \in 1..(n-1) : segs[m].kind # k]
WithoutKind(segs, k) == SelectSeq(segs, LAMBDA s : s.kind # k)

\* A reasoning block of which the opening tag and some text have arrived.
OpenSeg(s) == [s EXCEPT !.kind = @ \o "_open"]

IsOpen(s) == s.kind \in {"think_open", "thinking_open"}

\* A sentinel block of which a part of the opening marker has arrived.
MarkerPart(s) == [s EXCEPT !.kind = "sentinel_part"]

\* A segment that has not arrived whole.
IsPartial(s) == IsOpen(s) \/ s.kind = "sentinel_part"

\* How a segment that no parser removed shows in the text.
RenderSeg(s) ==
  CASE s.kind = "text"     -> s.text
    [] s.kind = "think"    -> "<think>" \o s.text \o "</think>"
    [] s.kind = "thinking" -> "<thinking>" \o s.text \o "</thinking>"
    [] s.kind = "think_open"    -> "<think>" \o s.text
    [] s.kind = "thinking_open" -> "<thinking>" \o s.text
    [] s.kind = "sentinel" -> "<!--TOOL_CALLS:" \o ToString(Len(s.calls)) \o "-->"
    [] s.kind = "sentinel_part" -> "<!--TOOL_"
    [] OTHER               -> "<tools>" \o Get(s.obj, "name") \o "</tools>"

RECURSIVE Render(_)
Render(segs) == IF segs = <<>> THEN "" ELSE RenderSeg(Head(segs)) \o Render(Tail(segs))

(***************************************************************************)
(* Response parser.                                                        *)
(***************************************************************************)
\* JSON.parse(tc.arguments) with the raw-string fallback; '' is falsy and
\* leaves args = {}.
ParseArguments(a) ==
  IF a.tag = "empty" THEN EmptyObj
  ELSE IF a.tag = "json" THEN a.obj
  ELSE ("_raw" :> a.text)

ToolCall(id, name, args) ==
  [id |-> id, name |-> name, arguments |-> args, status |-> "pending", result |-> Undefined]

\* content.match(/<!--TOOL_CALLS:(.*?)-->/) succeeds and JSON.parse accepts
\* the captured text: the lazy capture ends at the first '-->', so a block
\* whose JSON holds '-->' is captured short and JSON.parse rejects it.
StandardFormatParses(content) ==
  HasKind(content, "sentinel") /\ ~HoldsArrow(FirstOfKind(content, "sentinel").calls)

\* Standard format first, then the <tools> fallback, else no tool calls.
\* The values Date.now() takes: the time of a parse and a later time.
Times == {1, 2}

parseToolCalls(content, now) ==
  IF StandardFormatParses(content) THEN
    LET data == FirstOfKind(content, "sentinel").calls IN
    [cleanContent |-> WithoutKind(content, "sentinel"),
     toolCalls    |-> [n \in 1..Len(data) |->
                         ToolCall(data[n].id, data[n].name, ParseArguments(data[n].arguments))]]
  ELSE IF HasKind(content, "tools") THEN
    LET toolJson == FirstOfKind(content, "tools").obj IN
    [cleanContent |-> WithoutKind(content, "tools"),
     toolCalls    |-> << ToolCall("tool_" \o ToString(now), Get(toolJson, "name"),
                                  IF "arguments" \in DOMAIN toolJson
                                    THEN toolJson.arguments ELSE EmptyObj) >>]
  ELSE [cleanContent |-> content, toolCalls |-> <<>>]

\* <think>...</think> first, then <thinking>...</thinking>.
parseThinking(content) ==
  IF HasKind(content, "think") THEN
    [cleanContent |-> WithoutKind(content, "think"),
     thinking     |-> FirstOfKind(content, "think").text]
  ELSE IF HasKind(content, "thinking") THEN
    [cleanContent |-> WithoutKind(content, "thinking"),
     thinking     |-> FirstOfKind(content, "thinking").text]
  ELSE [cleanContent |-> content, thinking |-> Null]

\* The streaming projection of callAI: everything from the sentinel marker on
\* is cut, closed reasoning blocks are removed.
UpToSentinel(segs) ==
  IF HasKind(segs, "sentinel")
    THEN SubSeq(segs, 1, (CHOOSE n \in 1..Len(segs) :
                            segs[n].kind = "sentinel" /\ \A m \in 1..(n-1) : segs[m].kind # "sentinel") - 1)
    ELSE segs

\* .replace(/<think>[\s\S]*$/i, '').replace(/<thinking>[\s\S]*$/i, '')
UpToOpen(segs) ==
  IF \E n \in 1..Len(segs) : IsOpen(segs[n])
    THEN SubSeq(segs, 1, (CHOOSE n \in 1..Len(segs) :
                            IsOpen(segs[n]) /\ \A m \in 1..(n-1) : ~IsOpen(segs[m])) - 1)
    ELSE segs

\* A variant that removes closed reasoning blocks alone.
displayContentClosedOnly(rawContent) ==
  Render(WithoutKind(WithoutKind(UpToSentinel(rawContent), "think"), "thinking"))

displayContent(rawContent) ==
  Render(UpToOpen(WithoutKind(WithoutKind(UpToSentinel(rawContent), "think"), "thinking")))

(***************************************************************************)
(* What the model provider may answer.                                     *)
(***************************************************************************)
\* The one file path the tool calls name.
FilePath == "a.ts"

Call(name, arguments) == [name |-> name, arguments |-> arguments]

\* Well-formed calls of every tool name, one call of a name that is no tool.
GoodCalls ==
  { Call("write_file",     JsonArgs([path |-> FilePath, content |-> "c"])),
    Call("update_file",    JsonArgs([path |-> FilePath, old_content |-> "c", new_content |-> "d"])),
    Call("read_file",      JsonArgs([path |-> FilePath])),
    Call("delete_file",    JsonArgs([path |-> FilePath])),
    Call("list_directory", JsonArgs([path |-> "/"])),
    Call("list_directory", JsonArgs(EmptyObj)),
    Call("search_files",   JsonArgs([pattern |-> "a"])),
    Call("run_command",    JsonArgs([command |-> "npm test"])),
    Call("run_preview",    NoArgs),
    Call("delegate_task",  JsonArgs([agent_id |-> "pm", task |-> "t1",
                                     requirements |-> "r1", context |-> "c1"])),
    Call("delegate_task",  JsonArgs([agent_id |-> "engineer", task |-> "t2"])),
    Call("make_coffee",    NoArgs),
    Call("write_file",     JsonArgs([path |-> FilePath, content |-> ArrowContent])) }

ToolNames == {"write_file", "update_file", "read_file", "delete_file", "list_directory",
              "search_files", "run_command", "run_preview", "delegate_task"}

\* Every tool name with an argument string that JSON.parse rejects.
BadCalls == { Call(n, BadArgs) : n \in ToolNames }

\* The calls that longer tool-call lists are made of.
CoreCalls ==
  { Call("write_file",     JsonArgs([path |-> FilePath, content |-> "c"])),
    Call("delegate_task",  JsonArgs([agent_id |-> "pm", task |-> "t1",
                                     requirements |-> "r1", context |-> "c1"])) }

\* The provider's ids are unique within one response.
WithIds(calls) ==
  [n \in 1..Len(calls) |->
     [id |-> "call_" \o ToString(n), name |-> calls[n].name, arguments |-> calls[n].arguments]]

Sentinel(calls) == << TextSeg("working"), SentinelSeg(WithIds(calls)) >>

SeqsOf(S, lo, hi) == UNION { [1..n -> S] : n \in lo..hi }

PlainResponse == << TextSeg("answer") >>

Responses ==
  { PlainResponse,
    << ThinkSeg("plan"), TextSeg("answer") >>,
    << TextSeg("intro"), ThinkingSeg("plan"), TextSeg("answer") >>,
    << TextSeg("intro"), OpenSeg(ThinkSeg("plan")) >>,
    << TextSeg("working"),
       ToolsSeg([name |-> "write_file", arguments |-> [path |-> FilePath, content |-> "c"]]) >> }
  \cup { Sentinel(<<c>>) : c \in GoodCalls \cup BadCalls }
  \cup { Sentinel(cs) : cs \in SeqsOf(CoreCalls, 2, MaxToolCalls) }

\* Scripts: the provider answers every call of the turn the same way.
ToolResponse == Sentinel(<< Call("write_file", JsonArgs([path |-> FilePath, content |-> "c"])) >>)
DelegateResponse(round) ==
  Sentinel(<< IF round % 2 = 0
                THEN Call("delegate_task", JsonArgs([agent_id |-> "pm", task |-> "t1",
                                                     requirements |-> "r1", context |-> "c1"]))
                ELSE Call("delegate_task", JsonArgs([agent_id |-> "engineer", task |-> "t2"])) >>)
SubDelegateResponse ==
  Sentinel(<< Call("delegate_task", JsonArgs([agent_id |-> "seo", task |-> "t3"])) >>)

Scripts == {"free", "tool", "delegate"}

\* The answers of the script "short": one answer of these, then the plain one.
ShortResponses ==
  { PlainResponse,
    ToolResponse,
    << TextSeg("working"),
       ToolsSeg([name |-> "write_file", arguments |-> [path |-> FilePath, content |-> "c"]]) >>,
    Sentinel(<< Call("run_command", JsonArgs([command |-> "npm test"])) >>) }

(***************************************************************************)
(* State.                                                                  *)
(***************************************************************************)
VARIABLES
  \* useChatStore
  messages, messagesProjectId, isLoading, error,
  \* the module's abort controller ("null", or "ctrl" / "ctrl2" of the first /
  \* second sendMessage call) and the aborted flag of the signal the running
  \* session holds
  abortController, aborted,
  \* useAgentStore
  currentAgentId,
  \* the messages table
  db,
  \* usePreviewStore.files (paths), the files table (paths),
  \* usePreviewStore.pendingRunPreview, the number of version snapshots
  files, dbFiles, pendingRunPreview, versions,
  \* where the session is, and the exception that travels to its catch block
  pc, exception,
  \* the locals of sendMessage and of the running runAgentLoop
  send, loop,
  \* the model provider: its script, the free answers it has left, the
  \* response it is streaming
  provider,
  \* crypto.randomUUID(): the next unused id
  nextId,
  \* observations of the turn that the properties read (no action reads them)
  hist,
  \* the controller whose signal the session holds ('const signal' of
  \* sendMessage) and, when two sendMessage calls overlap, the call that
  \* is waiting at one of its awaits while the other one runs
  signal, bg,
  \* the turns of the conversation so far: their number, the agent that
  \* initiated the one before the current one, whether the current one has
  \* a mention (observations, no action reads them)
  turn,
  \* the messages the store held when fetchMessages replaced them
  \* (an observation, no action reads it)
  live,
  \* usePreviewStore.pendingCommands (ids, oldest first); of every queued
  \* command its promise, its result and its store timer; whether the
  \* panel's command effect is due to run
  pendingCommands, commands, effectDue,
  \* the executeCommand calls of the panel, oldest first
  runs,
  \* lib/webcontainer: the module's instance and boot promise, the number
  \* of WebContainer.boot() calls, the instances that are booted and not
  \* torn down
  webcontainerInstance, bootPromise, boots, liveInstances,
  \* the panel: webContainerRef.current, isSupported, its runPreview call
  webContainerRef, isSupported, preview,
  \* the argument of a parseMentions call and what the call returned
  input, parsedInput,
  \* the POST handler of the chat route while it streams one response: the
  \* provider's fragments to come and those read, the handler's toolCalls
  \* and fullContent, what it enqueued, and how the stream ended
  route,
  \* a restoreVersion call of the version store: where it is, the rows of
  \* the chosen version, the rows of the project in the files table now and
  \* when the call began, and what the call returned
  restore,
  \* the chat panel: its active project, isFetchingMessages of the chat
  \* store and the project of the fetchMessages call that has not
  \* returned, where its clearHistory call is; and observations no action
  \* reads: the number of sendMessage calls when clearHistory was called,
  \* the ids deleteMessage removed
  panel

vars == << messages, messagesProjectId, isLoading, error, abortController, aborted,
           currentAgentId, db, files, dbFiles, pendingRunPreview, versions,
           pc, exception, send, loop, provider, nextId, hist, signal, bg, turn, live,
           pendingCommands, commands, effectDue, runs, webcontainerInstance, bootPromise,
           boots, liveInstances, webContainerRef, isSupported, preview,
           input, parsedInput, route, restore, panel >>

\* The parser's call, the route's response, the version store's call.
aside == << input, parsedInput, route, restore, panel >>

\* The preview panel, its command queue and the sandbox.
sandbox == << pendingCommands, commands, effectDue, runs, webcontainerInstance, bootPromise,
              boots, liveInstances, webContainerRef, isSupported, preview >>

\* What the actions of a sendMessage call other than its entry leave alone.
others == << turn, live, sandbox, aside >>

\* restoreVersion was not called.
NoRestore == [pc |-> "none", versionFiles |-> {}, table |-> {}, before |-> {}, ret |-> "none"]

\* No response is being streamed by the route.
NoRoute == [stream |-> <<>>, seen |-> <<>>, toolCalls |-> <<>>, fullContent |-> "",
            out |-> <<>>, state |-> "none"]

\* parseMentions was not called.
NoParsedInput == [agentId |-> Undefined, content |-> <<>>, mentions |-> <<>>]

\* The ids of the commands queueCommand can queue.
CommandIds == 1..MaxCommands

\* A command that was not queued.
NoCommand == [promise |-> "none", result |-> "none", timer |-> "none"]

\* bootPromise = null.
NoBoot == [state |-> "null", id |-> 0]

\* A caller of getWebContainer that has not called: where it is, the boot
\* that was in progress when it called, the instance it received.
NoCaller == [pc |-> "idle", during |-> 0, got |-> 0]

NoTurn == [n |-> 0, prev |-> "none", mention |-> "none"]

ProjectId == "proj"
\* A second project of the user.
OtherProjectId == "other"

\* The chat panel shows the project of the conversation; nothing is being
\* fetched, cleared or deleted.
NoPanel == [activeProject |-> ProjectId, isFetchingMessages |-> FALSE, fetching |-> Null,
            clear |-> "none", changes |-> 0, clearTurn |-> 0, deleted |-> {}]

NoException == [name |-> "none", message |-> "", origin |-> "none"]
StoppedByUser == "Generation stopped by user"

NoResult == [delegations |-> <<>>, finalContent |-> "", conversationMessages |-> <<>>]

NoSend == [agentId |-> Undefined, userMessageId |-> 0, content |-> "",
           leaderResult |-> NoResult, delegationRound |-> 0,
           delegationResults |-> <<>>, i |-> 0, site |-> "none"]

NoRet == [result |-> Undefined, delegation |-> <<>>]

\* The locals of runAgentLoop at its entry.
NewLoop(agent, initialMessages, from) ==
  [currentAgentId |-> agent, delegatedFrom |-> from,
   conversationMessages |-> initialMessages, continueLoop |-> TRUE, loopCount |-> 0,
   pendingDelegations |-> <<>>, lastContent |-> "",
   fileOperations |-> <<>>, lastFileModifyingMessageId |-> 0,
   assistantMessageId |-> 0, rawContent |-> <<>>, parsedContent |-> "",
   toolCalls |-> <<>>, i |-> 0, toolResults |-> <<>>, ret |-> NoRet]

NoHist == [calls |-> 0, saved |-> 0, first |-> <<>>, allTools |-> TRUE,
           leaderRuns |-> 0, nestedRuns |-> 0, owed |-> 0, ignored |-> 0,
           roundRuns |-> <<>>, reports |-> <<>>,
           stopped |-> FALSE, transport |-> FALSE, outs |-> <<>>, refreshes |-> 0,
           dbAtCall |-> <<>>, late |-> FALSE]

\* No second sendMessage call.
NoBackground ==
  [pc |-> "none", exception |-> NoException, send |-> NoSend,
   loop |-> NewLoop(Undefined, <<>>, Undefined),
   provider |-> [script |-> "free", fresh |-> 0, response |-> <<>>],
   aborted |-> FALSE, signal |-> "none", hist |-> NoHist]

Constructed ==
  /\ messages = <<>>
  /\ messagesProjectId = Null
  /\ isLoading = FALSE
  /\ error = Null
  /\ abortController = "null"
  /\ aborted = FALSE
  /\ currentAgentId = DEFAULT_AGENT_ID
  /\ db = <<>>
  /\ dbFiles \in SUBSET {FilePath}
  /\ files = dbFiles
  /\ pendingRunPreview = FALSE
  /\ versions = 0
  /\ pc = "idle"
  /\ exception = NoException
  /\ send = NoSend
  /\ loop = NewLoop(Undefined, <<>>, Undefined)
  /\ provider = [script |-> "free", fresh |-> 0, response |-> <<>>]
  /\ nextId = 1
  /\ hist = NoHist
  /\ signal = "none"
  /\ bg = NoBackground
  /\ turn = NoTurn
  /\ live = <<>>
  /\ pendingCommands = <<>>
  /\ commands = [id \in CommandIds |-> NoCommand]
  /\ effectDue = FALSE
  /\ runs = <<>>
  /\ webcontainerInstance = 0
  /\ bootPromise = NoBoot
  /\ boots = 0
  /\ liveInstances = {}
  /\ webContainerRef = 0
  /\ isSupported = TRUE
  /\ preview = NoCaller
  /\ parsedInput = NoParsedInput
  /\ panel = NoPanel

\* The stores after construction; no text is being parsed.
Init == Constructed /\ input = <<>> /\ route = NoRoute /\ restore = NoRestore

(***************************************************************************)
(* Store helpers.                                                          *)
(***************************************************************************)
\* state.messages.map(m => m.id === id ? f(m) : m)
MapMessage(msgs, id, f(_)) ==
  [n \in 1..Len(msgs) |-> IF msgs[n].id = id THEN f(msgs[n]) ELSE msgs[n]]

UserMessage(id, content) ==
  [id |-> id, role |-> "user", content |-> content, thinking |-> Undefined,
   agentId |-> Undefined, delegatedFrom |-> Undefined, isStreaming |-> FALSE, toolCalls |-> <<>>]

\* The placeholder of an iteration.
Placeholder(id, agent, from) ==
  [id |-> id, role |-> "assistant", content |-> "", thinking |-> Undefined,
   agentId |-> agent, delegatedFrom |-> from, isStreaming |-> TRUE, toolCalls |-> <<>>]

\* updateToolStatus(toolId, status, result) of the iteration whose message is msgId.
updateToolStatus(msgs, msgId, toolId, status, result) ==
  MapMessage(msgs, msgId,
    LAMBDA m : [m EXCEPT !.toolCalls =
      [k \in 1..Len(m.toolCalls) |->
         IF m.toolCalls[k].id = toolId
           THEN [m.toolCalls[k] EXCEPT !.status = status, !.result = result]
           ELSE m.toolCalls[k]]])

Row(id, role, content, agent) ==
  [id |-> id, project_id |-> ProjectId, role |-> role, content |-> content, agent_id |-> agent]

\* { role, content } of a message of the history sent to the model.
Msg(role, parts) == [role |-> role, content |-> parts]

\* array.filter(Boolean) on strings.
FilterBoolean(parts) == SelectSeq(parts, LAMBDA x : x # "" /\ x # Undefined)

(***************************************************************************)
(* Preview store operations used by the tools.  A collaborator's outcome   *)
(* (env) is chosen by the environment.                                     *)
(***************************************************************************)
Value(v)  == [threw |-> FALSE, value |-> v,  message |-> ""]
Throws(m) == [threw |-> TRUE,  value |-> "", message |-> m]

RECURSIVE SetToSeq(_)
SetToSeq(S) == IF S = {} THEN <<>>
               ELSE LET x == CHOOSE y \in S : TRUE IN << x >> \o SetToSeq(S \ {x})

\* saveFile: the upsert's error is caught and logged; the store changes only
\* when the upsert succeeded.  A row without a path is rejected.
saveFile(fs, dfs, path, env) ==
  IF env = "ok" /\ path # Undefined
    THEN [files |-> fs \cup {path}, dbFiles |-> dfs \cup {path}]
    ELSE [files |-> fs, dbFiles |-> dfs]

\* updateFile: replaces old_content in the file's content; fails when the
\* file or the old content is not there, or when the store fails.
updateFile(fs, path, env) ==
  IF env = "throw" THEN Throws("update failed")
  ELSE IF env = "ok" /\ path \in fs THEN Value([success |-> TRUE, error |-> ""])
  ELSE Value([success |-> FALSE, error |-> "Content not found"])

\* deleteFile: true when the row was removed.
deleteFile(fs, path, env) ==
  IF env = "throw" THEN Throws("delete failed")
  ELSE Value(env = "ok" /\ path \in fs)

getFileContent(fs, path) == IF path \in fs THEN "content of " \o path ELSE Null

\* path.replace(/^\/+|\/+$/g, '') on the paths of the model.
normalizedPath(path) == IF path = "/" THEN "" ELSE path

\* listDirectory: the entries of the directory; path.replace throws on a
\* missing path.  The model's files lie in the root directory.
listDirectory(fs, path) ==
  IF path = Undefined THEN Throws("Cannot read properties of undefined (reading 'replace')")
  ELSE Value(IF normalizedPath(path) = "" THEN SetToSeq(fs) ELSE <<>>)

\* path.toLowerCase().includes(pattern) on the paths and patterns of the model.
Includes(path, pattern) == pattern = "a" \/ pattern = path \/ pattern = ""

\* searchFiles: pattern.toLowerCase() throws on a missing pattern.
searchFiles(fs, pattern) ==
  IF pattern = Undefined
    THEN Throws("Cannot read properties of undefined (reading 'toLowerCase')")
    ELSE Value(SetToSeq({f \in fs : Includes(f, pattern)}))

\* queueCommand: the promise resolves with the output, rejects, or resolves
\* with the timeout notice.
queueCommand(command, env) ==
  CASE env = "ok"   -> Value("output of " \o command)
    [] env = "fail" -> Throws("spawn failed")
    [] OTHER        -> Value("Command timed out after 300s: " \o command)

RECURSIVE formatItems(_)
formatItems(items) ==
  IF items = <<>> THEN ""
  ELSE "[file] " \o Head(items) \o (IF Len(items) > 1 THEN "\n" ELSE "") \o formatItems(Tail(items))

(***************************************************************************)
(* Tool executor: executeToolCall after it set the call to running.        *)
(* Returns the result text, the delegation if any (as a list of zero or    *)
(* one), the terminal status it set with the result it passed, and the     *)
(* collaborators' state.                                                   *)
(***************************************************************************)
\* The outcomes the environment can give the collaborator of a tool.
Outcomes(name) ==
  CASE name = "write_file"                    -> {"ok", "fail"}
    [] name \in {"update_file", "delete_file"} -> {"ok", "fail", "throw"}
    [] name = "run_command"                   -> {"ok", "fail", "timeout"}
    [] OTHER                                  -> {"ok"}

\* failure: a collaborator failed during the call.  rethrown: the failure
\* leaves executeToolCall as an exception.
Completed(result, fs, dfs, rp) ==
  [status |-> "completed", stored |-> Undefined, result |-> result, delegation |-> <<>>,
   files |-> fs, dbFiles |-> dfs, pendingRunPreview |-> rp, failure |-> FALSE,
   rethrown |-> FALSE]

\* A variant without the catch block: the failure leaves executeToolCall.
CaughtRethrown(message, fs, dfs, rp) ==
  [status |-> "running", stored |-> Undefined, result |-> message, delegation |-> <<>>,
   files |-> fs, dbFiles |-> dfs, pendingRunPreview |-> rp, failure |-> TRUE,
   rethrown |-> TRUE]

\* The catch block of executeToolCall.
Caught(message, fs, dfs, rp) ==
  [status |-> "error", stored |-> Undefined, result |-> "Error: " \o message, delegation |-> <<>>,
   files |-> fs, dbFiles |-> dfs, pendingRunPreview |-> rp, failure |-> TRUE,
   rethrown |-> FALSE]

\* The delegation executeToolCall returns for a delegate_task call.
DelegateTaskInfo(args) ==
  [agentId      |-> Get(args, "agent_id"),
   task         |-> Get(args, "task"),
   requirements |-> OrElse(Get(args, "requirements"), ""),
   context      |-> OrElse(Get(args, "context"), "")]

executeToolCall(toolCall, env, fs, dfs, rp) ==
  LET args == toolCall.arguments
      path == Get(args, "path")
  IN
  CASE toolCall.name = "delegate_task" ->
         LET agent  == getAgent(Get(args, "agent_id"))
             \* stands for the literal "已委派给 ${agent.name}"
             result == "Delegated to " \o agent.name
         IN [Completed(result, fs, dfs, rp) EXCEPT
               !.stored = result,
               !.delegation = << DelegateTaskInfo(args) >>]
    [] toolCall.name = "write_file" ->
         LET saved == saveFile(fs, dfs, path, env)
         IN [Completed("File written: " \o path, saved.files, saved.dbFiles, rp)
               EXCEPT !.failure = (env # "ok")]
    [] toolCall.name = "update_file" ->
         LET updateResult == updateFile(fs, path, env)
         IN IF updateResult.threw THEN Caught(updateResult.message, fs, dfs, rp)
            ELSE [Completed(IF updateResult.value.success
                              THEN "File updated: " \o path
                              ELSE "Failed to update file: " \o updateResult.value.error,
                            fs, dfs, rp)
                    EXCEPT !.failure = (env # "ok")]
    [] toolCall.name = "read_file" ->
         LET content == getFileContent(fs, path)
         IN Completed(IF content # Null THEN content ELSE "File not found: " \o path, fs, dfs, rp)
    [] toolCall.name = "delete_file" ->
         LET success == deleteFile(fs, path, env)
         IN IF success.threw THEN Caught(success.message, fs, dfs, rp)
            ELSE IF success.value
              THEN Completed("File deleted: " \o path, fs \ {path}, dfs \ {path}, rp)
              ELSE [Completed("Failed to delete file: " \o path, fs, dfs, rp)
                      EXCEPT !.failure = (env # "ok")]
    [] toolCall.name = "list_directory" ->
         LET items == listDirectory(fs, path)
         IN IF items.threw THEN Caught(items.message, fs, dfs, rp)
            ELSE IF items.value = <<>>
              \* stands for "目录 ${path || '/'} 为空（这是正常的，项目刚创建时没有文件）"
              THEN Completed("Directory " \o OrElse(path, "/") \o " is empty", fs, dfs, rp)
              \* stands for "目录 ${path || '/'} 内容:\n" + formatItems(items)
              ELSE Completed("Directory " \o OrElse(path, "/") \o " content:\n"
                               \o formatItems(items.value), fs, dfs, rp)
    [] toolCall.name = "search_files" ->
         LET found == searchFiles(fs, Get(args, "pattern"))
         IN IF found.threw THEN Caught(found.message, fs, dfs, rp)
            ELSE IF found.value = <<>>
              THEN Completed("No files found matching: " \o Get(args, "pattern"), fs, dfs, rp)
              ELSE Completed(Concat(JoinWith(found.value, "\n")), fs, dfs, rp)
    [] toolCall.name = "run_command" ->
         LET out == queueCommand(Get(args, "command"), env)
         IN [Completed(IF out.threw THEN "Command failed: " \o out.message ELSE out.value,
                       fs, dfs, rp)
               EXCEPT !.failure = (env # "ok")]
    [] toolCall.name = "run_preview" ->
         Completed("Preview started", fs, dfs, TRUE)
    [] OTHER ->
         Completed("Unknown tool: " \o toolCall.name, fs, dfs, rp)

(***************************************************************************)
(* The mention parser (lib/utils/mention-parser).  A text is a sequence    *)
(* of characters; a Chinese character is written as its pinyin.            *)
(***************************************************************************)
LowerCase == << "a", "b", "c", "d", "e", "f", "g", "h", "i", "j", "k", "l", "m",
                "n", "o", "p", "q", "r", "s", "t", "u", "v", "w", "x", "y", "z" >>
UpperCase == << "A", "B", "C", "D", "E", "F", "G", "H", "I", "J", "K", "L", "M",
                "N", "O", "P", "Q", "R", "S", "T", "U", "V", "W", "X", "Y", "Z" >>

\* The lower-case letter of every upper-case letter.
LowerOf == [c \in { UpperCase[n] : n \in 1..26 } |->
              LowerCase[CHOOSE n \in 1..26 : UpperCase[n] = c]]

\* toLowerCase() of a character, the case folding of the regex flag i.
Lower(c) == IF c \in DOMAIN LowerOf THEN LowerOf[c] ELSE c

\* The native and the translated display names of the agents.
DisplayName(id) ==
  CASE id = "leader"    -> << "tuan", "dui", "ling", "dao" >>
    [] id = "pm"        -> << "chan", "pin", "jing", "li" >>
    [] id = "engineer"  -> << "gong", "cheng", "shi" >>
    [] id = "architect" -> << "jia4", "gou", "shi" >>
    [] id = "analyst"   -> << "shu", "ju", "fen", "xi", "shi" >>
    [] OTHER            -> << "S", "E", "O", "zhuan", "jia" >>

DisplayNameEn(id) ==
  CASE id = "leader"    -> << "T", "e", "a", "m", " ", "L", "e", "a", "d", "e", "r" >>
    [] id = "pm"        -> << "P", "r", "o", "d", "u", "c", "t", " ", "M", "a", "n", "a", "g", "e", "r" >>
    [] id = "engineer"  -> << "E", "n", "g", "i", "n", "e", "e", "r" >>
    [] id = "architect" -> << "A", "r", "c", "h", "i", "t", "e", "c", "t" >>
    [] id = "analyst"   -> << "D", "a", "t", "a", " ", "A", "n", "a", "l", "y", "s", "t" >>
    [] OTHER            -> << "S", "E", "O", " ", "E", "x", "p", "e", "r", "t" >>

\* Mapping of names/aliases to agent IDs, in the order of the object's keys.
MENTION_MAP ==
  << [key |-> << "tuan", "dui", "ling", "dao" >>, id |-> "leader"],
     [key |-> << "chan", "pin", "jing", "li" >>, id |-> "pm"],
     [key |-> << "gong", "cheng", "shi" >>, id |-> "engineer"],
     [key |-> << "shu", "ju", "fen", "xi", "shi" >>, id |-> "analyst"],
     [key |-> << "S", "E", "O", "zhuan", "jia" >>, id |-> "seo"],
     [key |-> << "s", "e", "o", "zhuan", "jia" >>, id |-> "seo"],
     [key |-> << "ling", "dao" >>, id |-> "leader"],
     [key |-> << "kai", "fa" >>, id |-> "engineer"],
     [key |-> << "fen", "xi", "shi" >>, id |-> "analyst"],
     [key |-> << "l", "e", "a", "d", "e", "r" >>, id |-> "leader"],
     [key |-> << "p", "m" >>, id |-> "pm"],
     [key |-> << "e", "n", "g", "i", "n", "e", "e", "r" >>, id |-> "engineer"],
     [key |-> << "a", "n", "a", "l", "y", "s", "t" >>, id |-> "analyst"],
     [key |-> << "s", "e", "o" >>, id |-> "seo"],
     [key |-> << "t", "e", "a", "m", "l", "e", "a", "d", "e", "r" >>, id |-> "leader"],
     [key |-> << "t", "e", "a", "m", " ", "l", "e", "a", "d", "e", "r" >>, id |-> "leader"],
     [key |-> << "p", "r", "o", "d", "u", "c", "t", " ", "m", "a", "n", "a", "g", "e", "r" >>, id |-> "pm"],
     [key |-> << "d", "e", "v" >>, id |-> "engineer"],
     [key |-> << "d", "e", "v", "e", "l", "o", "p", "e", "r" >>, id |-> "engineer"] >>

\* Object.keys(MENTION_MAP)
MentionKeys == [n \in 1..Len(MENTION_MAP) |-> MENTION_MAP[n].key]

\* The keys in the order of the object: the alternatives of a regex that was
\* built without the sort.
mentionNamesUnsorted == MentionKeys

\* The keys of a length and of every shorter length, longer ones first, keys
\* of one length in the order of the object (the sort is stable).
RECURSIVE LongestFirst(_, _)
LongestFirst(keys, length) ==
  IF length = 0 THEN <<>>
  ELSE SelectSeq(keys, LAMBDA k : Len(k) = length) \o LongestFirst(keys, length - 1)

\* The alternatives of MENTION_REGEX: the keys sorted longest first.
mentionNames == LongestFirst(MentionKeys, 15)

\* The alternative matches the text after the @ at position at, whatever
\* the case of the letters.
MatchesAt(text, at, alternative) ==
  /\ at + Len(alternative) <= Len(text)
  /\ \A n \in 1..Len(alternative) : Lower(text[at + n]) = Lower(alternative[n])

\* The match of @(a|b|...) at a position: the first alternative that
\* matches, <<>> when there is no @ or none matches.
MatchAt(text, at) ==
  IF text[at] = "@" /\ \E n \in 1..Len(mentionNames) : MatchesAt(text, at, mentionNames[n])
    THEN LET first == CHOOSE n \in 1..Len(mentionNames) :
                        /\ MatchesAt(text, at, mentionNames[n])
                        /\ \A m \in 1..(n - 1) : ~MatchesAt(text, at, mentionNames[m])
         IN SubSeq(text, at + 1, at + Len(mentionNames[first]))
    ELSE <<>>

\* The matches of the global regex from a position on, left to right; the
\* search goes on behind a match.
RECURSIVE MentionMatches(_, _)
MentionMatches(text, at) ==
  IF at > Len(text) THEN <<>>
  ELSE IF MatchAt(text, at) # <<>>
    THEN << [at |-> at, name |-> MatchAt(text, at)] >>
         \o MentionMatches(text, at + 1 + Len(MatchAt(text, at)))
  ELSE MentionMatches(text, at + 1)

\* name.toLowerCase()
LowerText(text) == [n \in 1..Len(text) |-> Lower(text[n])]

\* Object.entries(MENTION_MAP).find(([key]) => key.toLowerCase() === name)?.[1]
MentionedAgent(name) ==
  IF \E n \in 1..Len(MENTION_MAP) : LowerText(MENTION_MAP[n].key) = LowerText(name)
    THEN MENTION_MAP[CHOOSE n \in 1..Len(MENTION_MAP) :
                       /\ LowerText(MENTION_MAP[n].key) = LowerText(name)
                       /\ \A m \in 1..(n - 1) :
                            LowerText(MENTION_MAP[m].key) # LowerText(name)].id
    ELSE Undefined

\* The while loop of parseMentions over the matches: an agent is pushed
\* when it is found and not yet in the list.
RECURSIVE CollectMentions(_, _)
CollectMentions(found, mentions) ==
  IF found = <<>> THEN mentions
  ELSE LET agentId == MentionedAgent(Head(found).name)
       IN CollectMentions(Tail(found),
                          IF agentId # Undefined /\ \A n \in 1..Len(mentions) : mentions[n] # agentId
                            THEN Append(mentions, agentId)
                            ELSE mentions)

\* input.replace(MENTION_REGEX, ''): the text without its matches.
RECURSIVE WithoutMentions(_, _)
WithoutMentions(text, at) ==
  IF at > Len(text) THEN <<>>
  ELSE IF MatchAt(text, at) # <<>>
    THEN WithoutMentions(text, at + 1 + Len(MatchAt(text, at)))
  ELSE << text[at] >> \o WithoutMentions(text, at + 1)

\* String.prototype.trim()
RECURSIVE Trim(_)
Trim(text) ==
  IF text = <<>> THEN text
  ELSE IF Head(text) = " " THEN Trim(Tail(text))
  ELSE IF text[Len(text)] = " " THEN Trim(SubSeq(text, 1, Len(text) - 1))
  ELSE text

\* parseMentions: the primary agent, the content without the mentions, and
\* all mentioned agents.
parseMentions(text) ==
  LET mentions == CollectMentions(MentionMatches(text, 1), <<>>)
  IN [agentId  |-> IF Len(mentions) > 0 THEN mentions[1] ELSE DEFAULT_AGENT_ID,
      content  |-> Trim(WithoutMentions(text, 1)),
      mentions |-> mentions]

\* The pieces the parsed texts are made of: every agent's two display
\* names behind an @, aliases behind an @, a lone @, a space, a word.
Pieces ==
  { << "@" >> \o DisplayName(id) : id \in AgentIds }
  \cup { << "@" >> \o DisplayNameEn(id) : id \in AgentIds }
  \cup { << "@", "d", "e", "v" >>, << "@", "d", "e", "v", "e", "l", "o", "p", "e", "r" >>, << "@", "P", "M" >>,
         << "@" >>, << " " >>, << " ", "h", "i" >> }

\* The texts of at most n pieces.
RECURSIVE Texts(_)
Texts(n) ==
  IF n = 0 THEN { <<>> }
  ELSE Texts(n - 1) \cup { t \o p : t \in Texts(n - 1), p \in Pieces }

\* A text is given to parseMentions.
InitMentions ==
  Constructed /\ input \in Texts(MaxPieces) /\ route = NoRoute /\ restore = NoRestore

\* The call of parseMentions returns.
ParseMentions ==
  /\ parsedInput = NoParsedInput
  /\ parsedInput' = parseMentions(input)
  /\ UNCHANGED << messages, messagesProjectId, isLoading, error, abortController, aborted,
                  currentAgentId, db, files, dbFiles, pendingRunPreview, versions,
                  pc, exception, send, loop, provider, nextId, hist, signal, bg,
                  turn, live, sandbox, input, route, restore, panel >>

NextMentions == ParseMentions

SpecMentions == InitMentions /\ [][NextMentions]_vars

\* What the user types for a mention of the chat: the mention, if any, and
\* a word.
Typed(mention) ==
  CASE mention = "none"      -> << "h", "e", "l", "l", "o" >>
    [] mention = "leader"    -> << "@", "l", "e", "a", "d", "e", "r", " ", "h", "e", "l", "l", "o" >>
    [] OTHER                 -> << "@", "a", "r", "c", "h", "i", "t", "e", "c", "t", " ", "h", "e", "l", "l", "o" >>

\* sendMessage: the agent of the first mention, or the current agent if
\* the content has no mention.
MentionedOrCurrent(mention, current) ==
  LET parsed == parseMentions(Typed(mention))
  IN IF Len(parsed.mentions) > 0 THEN parsed.agentId ELSE current

(***************************************************************************)
(* The chat route (app/api/chat/route.ts): the provider's stream is turned *)
(* into the text stream with the tool-call block at its end.               *)
(***************************************************************************)
\* delta.content of a chunk.
TextFragment(content) == [kind |-> "text", content |-> content]

\* One element of delta.tool_calls; "" stands for a field that is absent.
ToolCallFragment(index, id, name, arguments) ==
  [kind |-> "tool_call", index |-> index, id |-> id, name |-> name, arguments |-> arguments]

\* The chunks a provider may send.
Fragments ==
  { TextFragment("t") }
  \cup { ToolCallFragment(index, id, name, arguments) :
           index \in {0, 1}, id \in {"", "c1", "c2"}, name \in {"", "read_file"},
           arguments \in {"", "a", "b"} }

\* The streams of 1 to n chunks.
RECURSIVE Streams(_)
Streams(n) ==
  IF n = 0 THEN { <<>> }
  ELSE Streams(n - 1) \cup { Append(st, f) : st \in Streams(n - 1), f \in Fragments }

\* An index of the array toolCalls that was never assigned.
Hole == [hole |-> TRUE]

\* toolCalls[index] = value: the array grows to hold the index, and the
\* indices it skips stay holes.  Index 0 is the first element.
SetAt(array, index, value) ==
  [n \in 1..(IF index + 1 > Len(array) THEN index + 1 ELSE Len(array)) |->
     IF n = index + 1 THEN value
     ELSE IF n <= Len(array) THEN array[n] ELSE Hole]

\* !toolCalls[index]
Missing(array, index) == index + 1 > Len(array) \/ array[index + 1] = Hole

\* The handler's steps for one element of delta.tool_calls.
Reassembled(array, toolCall) ==
  LET index   == toolCall.index
      created == IF Missing(array, index)
                   THEN SetAt(array, index, [id |-> toolCall.id, name |-> toolCall.name,
                                             arguments |-> ""])
                   ELSE array
      old     == created[index + 1]
  IN [created EXCEPT ![index + 1] =
        [id        |-> IF toolCall.id # "" THEN toolCall.id ELSE old.id,
         name      |-> IF toolCall.name # "" THEN toolCall.name ELSE old.name,
         arguments |-> old.arguments \o toolCall.arguments]]

\* JSON.stringify(toolCalls.map(tc => ({id, name, arguments}))): map keeps
\* the holes and stringify writes null for each of them.
toolCallsData(array) == [n \in 1..Len(array) |-> IF array[n] = Hole THEN Null ELSE array[n]]

\* The handler begins to stream the response of a provider.
InitRoute ==
  /\ Constructed
  /\ input = <<>>
  /\ restore = NoRestore
  /\ \E st \in Streams(MaxFragments) \ { <<>> } :
       route = [NoRoute EXCEPT !.stream = st, !.state = "open"]

\* for await (const chunk of stream): a text chunk is enqueued as it is, a
\* tool-call chunk is added to toolCalls.
RouteChunk ==
  /\ route.state = "open"
  /\ route.stream # <<>>
  /\ LET chunk == Head(route.stream)
     IN route' = [route EXCEPT
          !.stream = Tail(@),
          !.seen = Append(@, chunk),
          !.fullContent = IF chunk.kind = "text" THEN @ \o chunk.content ELSE @,
          !.out = IF chunk.kind = "text" THEN Append(@, [kind |-> "text", text |-> chunk.content])
                  ELSE @,
          !.toolCalls = IF chunk.kind = "tool_call" THEN Reassembled(@, chunk) ELSE @]
  /\ UNCHANGED << messages, messagesProjectId, isLoading, error, abortController, aborted,
                  currentAgentId, db, files, dbFiles, pendingRunPreview, versions,
                  pc, exception, send, loop, provider, nextId, hist, signal, bg,
                  turn, live, sandbox, input, parsedInput, restore, panel >>

\* The provider's stream is over: the block of the tool calls is enqueued
\* if toolCalls.length > 0, and the stream is closed.
RouteComplete ==
  /\ route.state = "open"
  /\ route.stream = <<>>
  /\ route' = [route EXCEPT
       !.out = IF Len(route.toolCalls) > 0
                 THEN Append(@, [kind |-> "sentinel", calls |-> toolCallsData(route.toolCalls)])
                 ELSE @,
       !.state = "closed"]
  /\ UNCHANGED << messages, messagesProjectId, isLoading, error, abortController, aborted,
                  currentAgentId, db, files, dbFiles, pendingRunPreview, versions,
                  pc, exception, send, loop, provider, nextId, hist, signal, bg,
                  turn, live, sandbox, input, parsedInput, restore, panel >>

\* The provider's stream throws: controller.error(error).
RouteError ==
  /\ route.state = "open"
  /\ route' = [route EXCEPT !.state = "errored"]
  /\ UNCHANGED << messages, messagesProjectId, isLoading, error, abortController, aborted,
                  currentAgentId, db, files, dbFiles, pendingRunPreview, versions,
                  pc, exception, send, loop, provider, nextId, hist, signal, bg,
                  turn, live, sandbox, input, parsedInput, restore, panel >>

NextRoute ==
  \/ RouteChunk
  \/ RouteComplete
  \/ RouteError

SpecRoute == InitRoute /\ [][NextRoute]_vars

(***************************************************************************)
(* sendMessage: from the call to the start of the initiating agent's loop. *)
(***************************************************************************)
\* What the user types: no mention, or a mention of the leader or of the
\* architect.
Mentions == {"none", "leader", "architect"}

\* The number of answers the script leaves free.
Fresh(script) == IF script = "free" THEN MaxFresh ELSE IF script = "short" THEN 1 ELSE 0

\* The locals a run of runAgentLoop starts with are observed from zero.
StartRun(h) == [h EXCEPT !.calls = 0, !.saved = 0, !.first = <<>>, !.allTools = TRUE,
                         !.outs = <<>>, !.refreshes = 0]

\* The synchronous head of sendMessage.  handleSend calls it only while
\* isLoading is false; the model follows one turn of a new conversation.
SendMessage(mention, script) ==
  /\ pc = "idle"
  /\ ~isLoading
  /\ LET agentId == MentionedOrCurrent(mention, currentAgentId)
         content == IF mention # "none" THEN "@" \o mention \o " hello" ELSE "hello"
         isSwitchingProjects == messagesProjectId # ProjectId
     IN /\ messages' = IF isSwitchingProjects
                         THEN << UserMessage(nextId, content) >>
                         ELSE Append(messages, UserMessage(nextId, content))
        /\ send' = [NoSend EXCEPT !.agentId = agentId, !.userMessageId = nextId,
                                   !.content = content]
  /\ messagesProjectId' = ProjectId
  /\ isLoading' = TRUE
  /\ error' = Null
  /\ abortController' = "ctrl"
  /\ signal' = "ctrl"
  /\ aborted' = FALSE
  /\ provider' = [script |-> script, fresh |-> Fresh(script), response |-> <<>>]
  /\ nextId' = nextId + 1
  /\ pc' = "insert_user"
  /\ hist' = NoHist
  /\ turn' = [n |-> 1, prev |-> "none", mention |-> mention]
  /\ UNCHANGED << currentAgentId, db, files, dbFiles, pendingRunPreview, versions,
                  exception, loop, bg, live, sandbox, aside >>

\* sendMessage is called after the earlier call has returned.
SendMessageNext(mention, script) ==
  /\ pc = "done"
  /\ ~isLoading
  /\ turn.n < MaxTurns
  /\ LET agentId == MentionedOrCurrent(mention, currentAgentId)
         content == IF mention # "none" THEN "@" \o mention \o " hello" ELSE "hello"
         isSwitchingProjects == messagesProjectId # ProjectId
     IN /\ messages' = IF isSwitchingProjects
                         THEN << UserMessage(nextId, content) >>
                         ELSE Append(messages, UserMessage(nextId, content))
        /\ send' = [NoSend EXCEPT !.agentId = agentId, !.userMessageId = nextId,
                                   !.content = content]
  /\ messagesProjectId' = ProjectId
  /\ isLoading' = TRUE
  /\ error' = Null
  /\ abortController' = "ctrl"
  /\ signal' = "ctrl"
  /\ aborted' = FALSE
  /\ provider' = [script |-> script, fresh |-> Fresh(script), response |-> <<>>]
  /\ nextId' = nextId + 1
  /\ pc' = "insert_user"
  /\ exception' = NoException
  /\ hist' = NoHist
  /\ turn' = [n |-> turn.n + 1, prev |-> send.agentId, mention |-> mention]
  /\ UNCHANGED << currentAgentId, db, files, dbFiles, pendingRunPreview, versions,
                  loop, bg, live, sandbox, aside >>

\* A stored row as fetchMessages shows it: the content parsed again, every
\* tool call completed.
Reloaded(row, now) ==
  LET tools  == parseToolCalls(row.content, now)
      thinks == parseThinking(tools.cleanContent)
  IN [id |-> row.id, role |-> row.role, content |-> Render(thinks.cleanContent),
      thinking |-> IF thinks.thinking = Null THEN Undefined ELSE thinks.thinking,
      agentId |-> IF row.agent_id = Null THEN Undefined ELSE row.agent_id,
      delegatedFrom |-> Undefined,
      \* absent, which every reader takes as false
      isStreaming |-> FALSE,
      toolCalls |-> [n \in 1..Len(tools.toolCalls) |->
                       [tools.toolCalls[n] EXCEPT !.status = "completed"]]]

\* [...messages].reverse().find(m => m.role === 'assistant' && m.agentId)
lastAssistantMsg(msgs) ==
  LET found == { n \in 1..Len(msgs) : msgs[n].role = "assistant" /\ msgs[n].agentId # Undefined }
  IN IF found = {} THEN Undefined
     ELSE msgs[CHOOSE n \in found : \A m \in found : m <= n].agentId

\* fetchMessages, once no call is running: the rows of the project replace
\* the messages and the last active agent is restored; a failed query sets
\* the error.
FetchMessages(env, now) ==
  /\ pc = "done"
  /\ live = <<>>
  /\ IF env = "ok"
       THEN LET msgs == [n \in 1..Len(db) |-> Reloaded(db[n], now)]
            IN /\ messages' = msgs
               /\ messagesProjectId' = ProjectId
               /\ error' = Null
               /\ currentAgentId' = IF lastAssistantMsg(msgs) # Undefined
                                      THEN lastAssistantMsg(msgs) ELSE DEFAULT_AGENT_ID
               /\ live' = messages
       ELSE /\ error' = "query failed"
            /\ UNCHANGED << messages, messagesProjectId, currentAgentId, live >>
  /\ UNCHANGED << isLoading, abortController, aborted, db, files, dbFiles, pendingRunPreview,
                  versions, pc, exception, send, loop, provider, nextId, hist, signal, bg, turn,
                  sandbox, aside >>

\* Where a session waits for a promise: the inserts, the fetch, a read of
\* the body, a tool, the file refresh, the snapshot.
AwaitPoints == {"insert_user", "fetch", "read", "tool", "refresh", "persist", "snapshot"}

\* A handler of an event runs between two tasks of the event loop: the
\* sendMessage call, if there is one, is at an await.
BetweenTasks == pc \in AwaitPoints \cup {"idle", "done"}

\* sendMessage is called while an earlier call has not returned: the chat
\* panel allows it once isLoading is false, which stopGeneration sets at
\* once. The earlier call keeps its own signal and goes on from its await.
SendMessageAgain(mention, script) ==
  /\ pc \in AwaitPoints
  /\ bg.pc = "none"
  /\ ~isLoading
  /\ bg' = [pc |-> pc, exception |-> exception, send |-> send, loop |-> loop,
            provider |-> provider, aborted |-> aborted, signal |-> signal, hist |-> hist]
  /\ LET agentId == MentionedOrCurrent(mention, currentAgentId)
         content == IF mention # "none" THEN "@" \o mention \o " hello" ELSE "hello"
     IN /\ messages' = Append(messages, UserMessage(nextId, content))
        /\ send' = [NoSend EXCEPT !.agentId = agentId, !.userMessageId = nextId,
                                   !.content = content]
  /\ isLoading' = TRUE
  /\ error' = Null
  /\ abortController' = "ctrl2"
  /\ signal' = "ctrl2"
  /\ aborted' = FALSE
  /\ provider' = [script |-> script, fresh |-> Fresh(script), response |-> <<>>]
  /\ nextId' = nextId + 1
  /\ pc' = "insert_user"
  /\ exception' = NoException
  /\ hist' = NoHist
  /\ turn' = [n |-> turn.n + 1, prev |-> send.agentId, mention |-> mention]
  /\ UNCHANGED << messagesProjectId, currentAgentId, db, files, dbFiles, pendingRunPreview,
                  versions, loop, live, sandbox, aside >>

\* The promise the waiting call awaits settles and its continuation runs:
\* the two calls change places. A continuation runs to its next await, so
\* the running call is at an await, or has returned, when this happens.
Resume ==
  /\ bg.pc \in AwaitPoints
  /\ pc \in AwaitPoints \cup {"done"}
  /\ bg' = [pc |-> pc, exception |-> exception, send |-> send, loop |-> loop,
            provider |-> provider, aborted |-> aborted, signal |-> signal, hist |-> hist]
  /\ pc' = bg.pc
  /\ exception' = bg.exception
  /\ send' = bg.send
  /\ loop' = bg.loop
  /\ provider' = bg.provider
  /\ aborted' = bg.aborted
  /\ signal' = bg.signal
  /\ hist' = bg.hist
  /\ UNCHANGED << messages, messagesProjectId, isLoading, error, abortController,
                  currentAgentId, db, files, dbFiles, pendingRunPreview, versions, nextId, others >>

\* get().messages.filter(m => !m.isStreaming).map(m => ({role, content}))
initialMessages(msgs) ==
  LET kept == SelectSeq(msgs, LAMBDA m : ~m.isStreaming)
  IN [n \in 1..Len(kept) |-> Msg(kept[n].role, << kept[n].content >>)]

\* The insert of the user's message returned: runAgentLoop(agentId, initialMessages).
InsertUserMessage ==
  /\ pc = "insert_user"
  /\ db' = Append(db, Row(send.userMessageId, "user", << TextSeg(send.content) >>, Null))
  /\ loop' = NewLoop(send.agentId, initialMessages(messages), Undefined)
  /\ send' = [send EXCEPT !.site = "initial"]
  /\ hist' = [StartRun(hist) EXCEPT !.leaderRuns = @ + 1]
  /\ pc' = "loop_head"
  /\ UNCHANGED << messages, messagesProjectId, isLoading, error, abortController, aborted,
                  currentAgentId, files, dbFiles, pendingRunPreview, versions,
                  exception, provider, nextId, signal, bg, others >>

(***************************************************************************)
(* runAgentLoop and callAI.                                                *)
(***************************************************************************)
\* while (continueLoop && loopCount < maxLoops)
\* Variants of the loop condition: one that ignores continueLoop, one
\* that admits one more iteration than maxLoops.
LoopContinuesIgnoringFlag(l) == l.loopCount < maxLoops

LoopContinuesPastCeiling(l) == l.continueLoop /\ l.loopCount <= maxLoops

LoopContinues(l) == l.continueLoop /\ l.loopCount < maxLoops

\* Top of an iteration: the placeholder, then callAI's check of the signal
\* and the fetch.
BeginIteration ==
  /\ pc = "loop_head"
  /\ LoopContinues(loop)
  /\ loop' = [loop EXCEPT !.loopCount = @ + 1, !.assistantMessageId = nextId,
                          !.rawContent = <<>>, !.toolCalls = <<>>, !.i = 0,
                          !.toolResults = <<>>, !.ret = NoRet]
  /\ nextId' = nextId + 1
  /\ messages' = Append(messages, Placeholder(nextId, loop.currentAgentId, loop.delegatedFrom))
  /\ IF aborted
       THEN /\ exception' = [name |-> "Error", message |-> StoppedByUser, origin |-> "callAI"]
            /\ pc' = "catch"
            /\ hist' = [hist EXCEPT !.refreshes = 0, !.dbAtCall = db]
       ELSE /\ exception' = exception
            /\ pc' = "fetch"
            /\ hist' = [hist EXCEPT !.calls = @ + 1, !.refreshes = 0, !.dbAtCall = db,
                                    !.late = @ \/ hist.stopped]
  /\ UNCHANGED << messagesProjectId, isLoading, error, abortController, aborted, currentAgentId,
                  db, files, dbFiles, pendingRunPreview, versions, send, provider, signal, bg, others >>

\* The response the provider gives to the request of the running loop.
Answers ==
  CASE provider.script = "free" ->
         IF provider.fresh > 0 THEN Responses ELSE { PlainResponse }
    [] provider.script = "tool" -> { ToolResponse }
    [] provider.script = "short" ->
         IF provider.fresh > 0 THEN ShortResponses ELSE { PlainResponse }
    [] OTHER ->
         IF loop.delegatedFrom = Undefined THEN { DelegateResponse(send.delegationRound) }
         ELSE IF send.delegationRound % 2 = 1 THEN { SubDelegateResponse }
         ELSE { PlainResponse }

\* The fetch settles: a response whose body will stream, a non-2xx
\* response, a network failure, or the rejection that abort() causes.
FetchSettles(outcome) ==
  /\ pc = "fetch"
  /\ IF aborted
       THEN /\ outcome = "aborted"
            /\ exception' = [name |-> "AbortError", message |-> "The user aborted a request.",
                             origin |-> "fetch"]
            /\ pc' = "catch"
            /\ UNCHANGED << provider, hist >>
       ELSE
         \/ /\ outcome = "ok"
            /\ \E r \in Answers :
                 provider' = [provider EXCEPT !.response = r,
                                              !.fresh = IF @ > 0 THEN @ - 1 ELSE 0]
            /\ pc' = "read"
            /\ UNCHANGED << exception, hist >>
         \/ /\ outcome = "http_error"
            /\ exception' = [name |-> "Error", message |-> "Failed to get AI response",
                             origin |-> "fetch"]
            /\ pc' = "catch"
            /\ hist' = [hist EXCEPT !.transport = TRUE]
            /\ UNCHANGED provider
         \/ /\ outcome = "network_error"
            /\ exception' = [name |-> "TypeError", message |-> "Failed to fetch",
                             origin |-> "fetch"]
            /\ pc' = "catch"
            /\ hist' = [hist EXCEPT !.transport = TRUE]
            /\ UNCHANGED provider
  /\ UNCHANGED << messages, messagesProjectId, isLoading, error, abortController, aborted,
                  currentAgentId, db, files, dbFiles, pendingRunPreview, versions,
                  send, loop, nextId, signal, bg, others >>

\* What rawContent can be after the next chunk: the next segment of the
\* response, or of a reasoning block first the opening tag with some text
\* and then the rest, or of a sentinel block first a part of its opening
\* marker and then the rest (reader.read() cuts the body where it likes).
NextReceived(raw, response) ==
  IF raw # <<>> /\ IsPartial(raw[Len(raw)]) /\ raw[Len(raw)] # response[Len(raw)]
    THEN { [raw EXCEPT ![Len(raw)] = response[Len(raw)]] }
  ELSE IF Len(raw) < Len(response)
    THEN { Append(raw, response[Len(raw) + 1]) }
         \cup (IF response[Len(raw) + 1].kind \in {"think", "thinking"}
                 THEN { Append(raw, OpenSeg(response[Len(raw) + 1])) } ELSE {})
         \cup (IF response[Len(raw) + 1].kind = "sentinel"
                 THEN { Append(raw, MarkerPart(response[Len(raw) + 1])) } ELSE {})
  ELSE {}

\* reader.read() gives the next chunk: rawContent grows and the in-flight
\* message shows the projection.
ReadChunk ==
  /\ pc = "read"
  /\ ~aborted
  /\ \E rawContent \in NextReceived(loop.rawContent, provider.response) :
        /\ loop' = [loop EXCEPT !.rawContent = rawContent]
        /\ messages' = MapMessage(messages, loop.assistantMessageId,
                         LAMBDA m : [m EXCEPT !.content = displayContent(rawContent)])
  /\ hist' = [hist EXCEPT !.late = @ \/ hist.stopped]
  /\ UNCHANGED << messagesProjectId, isLoading, error, abortController, aborted, currentAgentId,
                  db, files, dbFiles, pendingRunPreview, versions, pc, exception,
                  send, provider, nextId, signal, bg, others >>

\* A variant that saves what was received when the read fails.
ReadFailsSaving ==
  /\ pc = "read"
  /\ exception' = [name |-> "TypeError", message |-> "network error", origin |-> "read"]
  /\ hist' = [hist EXCEPT !.transport = TRUE]
  /\ db' = Append(db, [id |-> loop.assistantMessageId, role |-> "assistant",
                        content |-> loop.rawContent, agent_id |-> loop.currentAgentId,
                        project_id |-> "proj"])
  /\ pc' = "catch"
  /\ UNCHANGED << messages, messagesProjectId, isLoading, error, abortController, aborted,
                  currentAgentId, files, dbFiles, pendingRunPreview, versions,
                  send, loop, provider, nextId, signal, bg, others >>

\* reader.read() rejects: the signal was aborted (the inner catch turns it
\* into the stop error), or the connection broke.
ReadFails ==
  /\ pc = "read"
  /\ IF aborted
       THEN /\ exception' = [name |-> "Error", message |-> StoppedByUser, origin |-> "read"]
            /\ hist' = hist
       ELSE /\ exception' = [name |-> "TypeError", message |-> "network error", origin |-> "read"]
            /\ hist' = [hist EXCEPT !.transport = TRUE]
  /\ pc' = "catch"
  /\ UNCHANGED << messages, messagesProjectId, isLoading, error, abortController, aborted,
                  currentAgentId, db, files, dbFiles, pendingRunPreview, versions,
                  send, loop, provider, nextId, signal, bg, others >>

\* The stream is done: callAI returns rawContent, the loop parses it and
\* finalizes the in-flight message.  Without tool calls the insert of the
\* message is awaited next; with tool calls the first of them is executed.
ReadDone ==
  /\ pc = "read"
  /\ ~aborted
  /\ loop.rawContent = provider.response
  /\ \E now \in Times :
     LET tools    == parseToolCalls(loop.rawContent, now)
         thinks   == parseThinking(tools.cleanContent)
         parsedContent == Render(thinks.cleanContent)
         toolCalls == tools.toolCalls
     IN /\ loop' = [loop EXCEPT !.parsedContent = parsedContent, !.lastContent = parsedContent,
                                !.toolCalls = toolCalls, !.i = 1,
                                !.continueLoop = IF toolCalls = <<>> THEN FALSE ELSE @]
        /\ messages' = MapMessage(messages, loop.assistantMessageId,
                         LAMBDA m : [m EXCEPT !.content = parsedContent,
                                              !.thinking = IF thinks.thinking = Null
                                                             THEN Undefined ELSE thinks.thinking,
                                              !.toolCalls = toolCalls,
                                              !.isStreaming = FALSE])
        /\ pc' = IF toolCalls = <<>> THEN "persist" ELSE "exec"
        /\ hist' = [hist EXCEPT
                      !.outs = <<>>,
                      !.first = IF loop.loopCount = 1 THEN toolCalls ELSE @,
                      !.allTools = @ /\ toolCalls # <<>>
                                     /\ \A n \in 1..Len(toolCalls) : toolCalls[n].name # "delegate_task"]
  /\ UNCHANGED << messagesProjectId, isLoading, error, abortController, aborted, currentAgentId,
                  db, files, dbFiles, pendingRunPreview, versions, exception,
                  send, provider, nextId, signal, bg, others >>

\* executeToolCall begins: updateToolStatus(toolCall.id, 'running').
ExecStart ==
  /\ pc = "exec"
  /\ messages' = updateToolStatus(messages, loop.assistantMessageId,
                                  loop.toolCalls[loop.i].id, "running", Undefined)
  /\ pc' = "tool"
  /\ UNCHANGED << messagesProjectId, isLoading, error, abortController, aborted, currentAgentId,
                  db, files, dbFiles, pendingRunPreview, versions, exception,
                  send, loop, provider, nextId, hist, signal, bg, others >>

\* executeToolCall runs the tool, sets the terminal status and returns.
ExecFinish(env) ==
  /\ pc = "tool"
  /\ env \in Outcomes(loop.toolCalls[loop.i].name)
  /\ LET r == executeToolCall(loop.toolCalls[loop.i], env, files, dbFiles, pendingRunPreview)
     IN /\ messages' = updateToolStatus(messages, loop.assistantMessageId,
                                        loop.toolCalls[loop.i].id, r.status, r.stored)
        /\ files' = r.files
        /\ dbFiles' = r.dbFiles
        /\ pendingRunPreview' = r.pendingRunPreview
        /\ loop' = [loop EXCEPT !.ret = [result |-> r.result, delegation |-> r.delegation]]
        /\ hist' = [hist EXCEPT !.outs = Append(@, [id |-> loop.toolCalls[loop.i].id,
                                                 call |-> loop.toolCalls[loop.i],
                                                 text |-> r.result, status |-> r.status,
                                                 failure |-> r.failure])]
        /\ IF r.rethrown
             THEN /\ exception' = [name |-> "Error", message |-> r.result, origin |-> "tool"]
                  /\ pc' = "catch"
             ELSE /\ exception' = exception
                  /\ pc' = "after_tool"
  /\ UNCHANGED << messagesProjectId, isLoading, error, abortController, aborted, currentAgentId,
                  db, versions, send, provider, nextId, signal, bg, others >>

fileModifyingTools == {"write_file", "update_file", "delete_file"}

\* A variant that looks for write_file alone.
hasFileToolsWriteOnly(toolCalls) ==
  \E n \in 1..Len(toolCalls) : toolCalls[n].name = "write_file"

\* toolCalls.some(tc => fileModifyingTools.includes(tc.name))
hasFileTools(toolCalls) ==
  \E n \in 1..Len(toolCalls) : toolCalls[n].name \in fileModifyingTools

\* A variant that leaves the call running.
StatusAfterToolRunning == "running"

\* The status the loop sets after executeToolCall returned.
StatusAfterTool == "completed"

\* A variant that puts the newest result first.
CollectFirst(toolResults, r) == << r >> \o toolResults

\* toolResults.push({ toolCallId, result })
Collect(toolResults, r) == Append(toolResults, r)

\* The loop body after executeToolCall returned: the result is collected,
\* the status is set once more, the delegation is collected (its debug line
\* reads delegation.task.substring), and the next call or the end of the
\* calls follows.
AfterTool ==
  /\ pc = "after_tool"
  /\ LET toolCall == loop.toolCalls[loop.i]
         result   == loop.ret.result
         results  == Collect(loop.toolResults,
                             [toolCallId |-> toolCall.id, result |-> OrElse(result, "")])
         throws   == loop.ret.delegation # <<>> /\ loop.ret.delegation[1].task = Undefined
     IN /\ messages' = updateToolStatus(messages, loop.assistantMessageId, toolCall.id,
                                        StatusAfterTool, OrElse(result, Undefined))
        /\ IF throws
             THEN /\ loop' = [loop EXCEPT !.toolResults = results]
                  /\ exception' = [name |-> "TypeError",
                                   message |-> "Cannot read properties of undefined (reading 'substring')",
                                   origin |-> "loop"]
                  /\ pc' = "catch"
             ELSE /\ loop' = [loop EXCEPT !.toolResults = results,
                                          !.pendingDelegations = @ \o loop.ret.delegation,
                                          !.i = @ + 1]
                  /\ exception' = exception
                  /\ pc' = IF loop.i < Len(loop.toolCalls) THEN "exec"
                           ELSE IF hasFileTools(loop.toolCalls) THEN "refresh"
                           ELSE "persist"
  /\ UNCHANGED << messagesProjectId, isLoading, error, abortController, aborted, currentAgentId,
                  db, files, dbFiles, pendingRunPreview, versions, send, provider, nextId, hist, signal, bg, others >>

\* fetchFiles: the store takes the table's files, or keeps its own on error.
fetchFiles(fs, dfs, env) == IF env = "ok" THEN dfs ELSE fs

\* Refresh files after tools executed, and track the file operations.
RefreshFiles(env) ==
  /\ pc = "refresh"
  /\ env \in {"ok", "fail"}
  /\ files' = fetchFiles(files, dbFiles, env)
  /\ LET ops == SelectSeq(loop.toolCalls, LAMBDA tc : tc.name \in fileModifyingTools)
     IN loop' = [loop EXCEPT
                   !.fileOperations = @ \o [n \in 1..Len(ops) |->
                        [type |-> ops[n].name, path |-> OrElse(Get(ops[n].arguments, "path"), "")]],
                   !.lastFileModifyingMessageId = loop.assistantMessageId]
  /\ hist' = [hist EXCEPT !.refreshes = @ + 1]
  /\ pc' = "persist"
  /\ UNCHANGED << messages, messagesProjectId, isLoading, error, abortController, aborted,
                  currentAgentId, db, dbFiles, pendingRunPreview, versions, exception,
                  send, provider, nextId, signal, bg, others >>

\* A variant that lists the last result alone.
ToolResultsContentLast(toolResults) ==
  << "Tool execution finished, results:\n\n",
     "### " \o toolResults[Len(toolResults)].toolCallId \o "\n"
            \o toolResults[Len(toolResults)].result,
     "\n\nContinue from these results." >>

\* `### ${tr.toolCallId}\n${tr.result}` of each result, joined by blank lines,
\* between the two fixed sentences (ASCII stand-ins of the literals).
ToolResultsContent(toolResults) ==
  << "Tool execution finished, results:\n\n" >>
  \o JoinWith([n \in 1..Len(toolResults) |->
                 "### " \o toolResults[n].toolCallId \o "\n" \o toolResults[n].result], "\n\n")
  \o << "\n\nContinue from these results." >>

\* The insert of the assistant message returned; the loop pauses for the
\* delegations or prepares the next round.
Persist ==
  /\ pc = "persist"
  /\ db' = Append(db, Row(loop.assistantMessageId, "assistant", loop.rawContent,
                          loop.currentAgentId))
  /\ loop' =
       IF loop.toolCalls = <<>> THEN loop
       ELSE IF Len(loop.pendingDelegations) > 0 THEN [loop EXCEPT !.continueLoop = FALSE]
       ELSE [loop EXCEPT !.conversationMessages =
               @ \o << Msg("assistant", << loop.parsedContent >>),
                       Msg("user", ToolResultsContent(loop.toolResults)) >>]
  /\ hist' = [hist EXCEPT !.saved = @ + 1]
  /\ pc' = "loop_head"
  /\ UNCHANGED << messages, messagesProjectId, isLoading, error, abortController, aborted,
                  currentAgentId, files, dbFiles, pendingRunPreview, versions, exception,
                  send, provider, nextId, signal, bg, others >>

\* The while loop ends: a snapshot is created when files were modified.
LoopExit ==
  /\ pc = "loop_head"
  /\ ~LoopContinues(loop)
  /\ pc' = IF Len(loop.fileOperations) > 0 /\ loop.lastFileModifyingMessageId # 0
             THEN "snapshot" ELSE "return"
  /\ UNCHANGED << messages, messagesProjectId, isLoading, error, abortController, aborted,
                  currentAgentId, db, files, dbFiles, pendingRunPreview, versions, exception,
                  send, loop, provider, nextId, hist, signal, bg, others >>

\* createSnapshot: nothing is created for an empty file list; its errors
\* are caught and logged.
createSnapshot(n, fs) == IF fs = {} THEN n ELSE n + 1

Snapshot ==
  /\ pc = "snapshot"
  /\ versions' = createSnapshot(versions, files)
  /\ pc' = "return"
  /\ UNCHANGED << messages, messagesProjectId, isLoading, error, abortController, aborted,
                  currentAgentId, db, files, dbFiles, pendingRunPreview, exception,
                  send, loop, provider, nextId, hist, signal, bg, others >>

(***************************************************************************)
(* sendMessage: the delegation orchestrator.                               *)
(***************************************************************************)
\* What runAgentLoop returns.
LoopResult(l) == [delegations |-> l.pendingDelegations, finalContent |-> l.lastContent,
                  conversationMessages |-> l.conversationMessages]

\* leaderResult = await runAgentLoop(agentId, ...)
ReturnToLeader ==
  /\ pc = "return"
  /\ send.site \in {"initial", "feedback"}
  /\ send' = [send EXCEPT !.leaderResult = LoopResult(loop)]
  /\ pc' = "orch"
  /\ UNCHANGED << messages, messagesProjectId, isLoading, error, abortController, aborted,
                  currentAgentId, db, files, dbFiles, pendingRunPreview, versions, exception,
                  loop, provider, nextId, hist, signal, bg, others >>

\* `**${delegatedAgent.name}的报告:**\n${agentResult.finalContent}`
Report(delegation, agentResult) ==
  "**" \o getAgent(delegation.agentId).name \o " report:**\n" \o agentResult.finalContent

\* A variant that queues the delegations a nested run returned.
TakeNestedAdopting(s, agentResult) ==
  [s EXCEPT !.delegationResults =
              Append(@, Report(s.leaderResult.delegations[s.i], agentResult)),
            !.leaderResult.delegations = @ \o agentResult.delegations,
            !.i = @ + 1]

\* What the orchestrator takes from the result of a nested run.
TakeNested(s, agentResult) ==
  [s EXCEPT !.delegationResults =
              Append(@, Report(s.leaderResult.delegations[s.i], agentResult)),
            !.i = @ + 1]

\* agentResult = await runAgentLoop(delegation.agentId, delegationMessages, agentId)
ReturnToDelegation ==
  /\ pc = "return"
  /\ send.site = "nested"
  /\ send' = TakeNested(send, LoopResult(loop))
  /\ hist' = [hist EXCEPT
                !.reports = Append(@, Report(send.leaderResult.delegations[send.i], LoopResult(loop))),
                !.ignored = @ + Len(loop.pendingDelegations)]
  /\ pc' = "deleg"
  /\ UNCHANGED << messages, messagesProjectId, isLoading, error, abortController, aborted,
                  currentAgentId, db, files, dbFiles, pendingRunPreview, versions, exception,
                  loop, provider, nextId, signal, bg, others >>

\* A variant without the cap on the rounds.
RoundContinuesUncapped(s) == Len(s.leaderResult.delegations) > 0

\* while (leaderResult.delegations.length > 0 && delegationRound < maxDelegationRounds)
RoundContinues(s) == Len(s.leaderResult.delegations) > 0 /\ s.delegationRound < maxDelegationRounds

\* A delegation round begins.
RoundStart ==
  /\ pc = "orch"
  /\ RoundContinues(send)
  /\ send' = [send EXCEPT !.delegationRound = @ + 1, !.delegationResults = <<>>, !.i = 1]
  /\ hist' = [hist EXCEPT !.owed = @ + Len(send.leaderResult.delegations), !.roundRuns = <<>>]
  /\ pc' = "deleg"
  /\ UNCHANGED << messages, messagesProjectId, isLoading, error, abortController, aborted,
                  currentAgentId, db, files, dbFiles, pendingRunPreview, versions, exception,
                  loop, provider, nextId, signal, bg, others >>

\* The single user message a nested loop starts from (ASCII stand-ins of
\* the headings), the parts that .filter(Boolean).join('\n') keeps.
DelegationContent(delegation) ==
  JoinWith(FilterBoolean(<<
    "## Task",
    delegation.task,
    IF delegation.requirements # "" THEN "\n## Requirements\n" \o delegation.requirements ELSE "",
    IF delegation.context # "" THEN "\n## Background\n" \o delegation.context ELSE "",
    "\n---\nCarry out this task now. Summarize your work when done." >>), "\n")

delegationMessages(delegation) == << Msg("user", DelegationContent(delegation)) >>

\* The next delegation of the round is executed by a nested loop.  The
\* debug lines read task, requirements and context with substring.
StartNested ==
  /\ pc = "deleg"
  /\ send.i <= Len(send.leaderResult.delegations)
  /\ LET delegation == send.leaderResult.delegations[send.i]
     IN IF delegation.task = Undefined
          THEN /\ exception' = [name |-> "TypeError",
                                message |-> "Cannot read properties of undefined (reading 'substring')",
                                origin |-> "orchestrator"]
               /\ pc' = "catch"
               /\ UNCHANGED << loop, send, hist >>
          ELSE /\ loop' = NewLoop(delegation.agentId, delegationMessages(delegation), send.agentId)
               /\ send' = [send EXCEPT !.site = "nested"]
               /\ hist' = [StartRun(hist) EXCEPT !.nestedRuns = @ + 1,
                                                 !.roundRuns = Append(@, delegation)]
               /\ exception' = exception
               /\ pc' = "loop_head"
  /\ UNCHANGED << messages, messagesProjectId, isLoading, error, abortController, aborted,
                  currentAgentId, db, files, dbFiles, pendingRunPreview, versions,
                  provider, nextId, signal, bg, others >>

\* A variant that starts the re-invocation from the reports alone.
feedbackMessagesForgetting(leaderResult, delegationResults) ==
  << Msg("assistant", << leaderResult.finalContent >>),
     Msg("user", << "Results of the delegated tasks:\n\n" >>
                 \o JoinWith(delegationResults, "\n\n---\n\n")
                 \o << "\n\nDecide the next step." >>) >>

\* The history the initiating agent's loop is re-invoked with (ASCII
\* stand-ins of the two fixed sentences).
feedbackMessages(leaderResult, delegationResults) ==
  leaderResult.conversationMessages
  \o << Msg("assistant", << leaderResult.finalContent >>),
        Msg("user", << "Results of the delegated tasks:\n\n" >>
                    \o JoinWith(delegationResults, "\n\n---\n\n")
                    \o << "\n\nDecide the next step." >>) >>

\* Every delegation of the round was executed: the results go back to the
\* initiating agent.
Feedback ==
  /\ pc = "deleg"
  /\ send.i > Len(send.leaderResult.delegations)
  /\ loop' = NewLoop(send.agentId, feedbackMessages(send.leaderResult, send.delegationResults),
                     Undefined)
  /\ send' = [send EXCEPT !.site = "feedback"]
  /\ hist' = [StartRun(hist) EXCEPT !.leaderRuns = @ + 1]
  /\ pc' = "loop_head"
  /\ UNCHANGED << messages, messagesProjectId, isLoading, error, abortController, aborted,
                  currentAgentId, db, files, dbFiles, pendingRunPreview, versions, exception,
                  provider, nextId, signal, bg, others >>

\* The orchestration loop ended: the agent is remembered, isLoading is reset.
Complete ==
  /\ pc = "orch"
  /\ ~RoundContinues(send)
  /\ currentAgentId' = send.agentId
  /\ abortController' = "null"
  /\ isLoading' = FALSE
  /\ pc' = "done"
  /\ UNCHANGED << messages, messagesProjectId, error, aborted, db, files, dbFiles,
                  pendingRunPreview, versions, exception, send, loop, provider, nextId, hist, signal, bg, others >>

\* A variant that knows the stop error by its message alone.
isAbortedByMessage(e) == e.message = StoppedByUser

isAborted(e) == e.message = StoppedByUser \/ e.name = "AbortError"

\* The catch block of sendMessage.
Catch ==
  /\ pc = "catch"
  /\ abortController' = "null"
  /\ error' = IF isAborted(exception) THEN Null ELSE exception.message
  /\ isLoading' = FALSE
  /\ pc' = "done"
  /\ UNCHANGED << messages, messagesProjectId, aborted, currentAgentId, db, files, dbFiles,
                  pendingRunPreview, versions, exception, send, loop, provider, nextId, hist, signal, bg, others >>

\* stopGeneration; the stop button and the Escape key call it while
\* isLoading is true.
\* A sendMessage call that has not returned.
Generating(p) == p \notin {"idle", "none", "done"}

\* abort() reaches the call that holds the signal of the module's
\* controller; with no controller nothing is aborted. The handler runs
\* between two tasks of the event loop: the call, if there is one, is at
\* an await.
StopGeneration ==
  /\ BetweenTasks
  /\ aborted' = (aborted \/ (abortController # "null" /\ abortController = signal))
  /\ bg' = [bg EXCEPT !.aborted = @ \/ (abortController # "null" /\ abortController = bg.signal),
                      !.hist.stopped = @ \/ Generating(bg.pc)]
  /\ abortController' = "null"
  /\ isLoading' = FALSE
  /\ hist' = [hist EXCEPT !.stopped = @ \/ Generating(pc)]
  /\ UNCHANGED << messages, messagesProjectId, error, currentAgentId, db, files, dbFiles,
                  pendingRunPreview, versions, pc, exception, send, loop, provider, nextId, signal, others >>

(***************************************************************************)
(* The chat panel: the change of project, clearHistory, deleteMessage.     *)
(***************************************************************************)
\* The rows of the other project in the messages table; no action writes
\* to them.
OtherRows ==
  << [Row(0, "user", << TextSeg("hi") >>, Null) EXCEPT !.project_id = OtherProjectId] >>

\* .eq('project_id', projectId)
RowsOfProject(projectId) == IF projectId = ProjectId THEN db ELSE OtherRows

\* The project a message was written for: sendMessage is called for
\* ProjectId alone.
ProjectOf(id) == IF id = 0 THEN OtherProjectId ELSE ProjectId

\* handleSend of the panel: sendMessage(activeProject.id, content).
handleSend ==
  /\ panel.activeProject = ProjectId
  /\ SendMessage("none", "short")

\* The user opens another project.
SelectProject(projectId) ==
  /\ BetweenTasks
  /\ panel.activeProject # projectId
  /\ panel.changes < MaxChanges
  /\ panel' = [panel EXCEPT !.activeProject = projectId, !.changes = @ + 1]
  /\ UNCHANGED << messages, messagesProjectId, isLoading, error, abortController, aborted,
                  currentAgentId, db, files, dbFiles, pendingRunPreview, versions, pc,
                  exception, send, loop, provider, nextId, hist, signal, bg, turn, live,
                  sandbox, input, parsedInput, route, restore >>

\* The panel's effect calls fetchMessages(activeProject.id) when the
\* messages are those of another project and no fetch is under way.
FetchMessagesBegin ==
  /\ BetweenTasks
  /\ messagesProjectId # panel.activeProject
  /\ ~panel.isFetchingMessages
  /\ panel' = [panel EXCEPT !.isFetchingMessages = TRUE, !.fetching = panel.activeProject]
  /\ error' = Null
  /\ UNCHANGED << messages, messagesProjectId, isLoading, abortController, aborted,
                  currentAgentId, db, files, dbFiles, pendingRunPreview, versions, pc,
                  exception, send, loop, provider, nextId, hist, signal, bg, turn, live,
                  sandbox, input, parsedInput, route, restore >>

\* The query of fetchMessages returned.
FetchMessagesSettles(env, now) ==
  /\ BetweenTasks
  /\ panel.isFetchingMessages
  /\ panel' = [panel EXCEPT !.isFetchingMessages = FALSE, !.fetching = Null]
  /\ IF env = "ok"
       THEN LET rows == RowsOfProject(panel.fetching)
                msgs == [n \in 1..Len(rows) |-> Reloaded(rows[n], now)]
            IN /\ messages' = msgs
               /\ messagesProjectId' = panel.fetching
               /\ currentAgentId' = IF lastAssistantMsg(msgs) # Undefined
                                      THEN lastAssistantMsg(msgs) ELSE DEFAULT_AGENT_ID
               /\ error' = error
       ELSE /\ error' = "query failed"
            /\ UNCHANGED << messages, messagesProjectId, currentAgentId >>
  /\ UNCHANGED << isLoading, abortController, aborted, db, files, dbFiles, pendingRunPreview,
                  versions, pc, exception, send, loop, provider, nextId, hist, signal, bg,
                  turn, live, sandbox, input, parsedInput, route, restore >>

\* An insert of the sendMessage call is under way: the table may or may
\* not have its row yet.
InsertInFlight == pc \in {"insert_user", "persist"}

\* clearHistory(activeProject.id): the button shows while there are
\* messages, also while a sendMessage call is running. The clicks that
\* are followed are those made while no insert is under way.
ClearHistory ==
  /\ panel.activeProject = ProjectId
  /\ Len(messages) > 0
  /\ BetweenTasks
  /\ ~InsertInFlight
  /\ panel.clear = "none"
  /\ panel' = [panel EXCEPT !.clear = "deleting", !.clearTurn = turn.n]
  /\ UNCHANGED << messages, messagesProjectId, isLoading, error, abortController, aborted,
                  currentAgentId, db, files, dbFiles, pendingRunPreview, versions, pc,
                  exception, send, loop, provider, nextId, hist, signal, bg, turn, live,
                  sandbox, input, parsedInput, route, restore >>

\* The delete of clearHistory returned.
ClearHistorySettles(env) ==
  /\ BetweenTasks
  /\ panel.clear = "deleting"
  /\ IF env = "ok"
       THEN /\ db' = <<>>
            /\ messages' = <<>>
            /\ messagesProjectId' = ProjectId
            /\ currentAgentId' = DEFAULT_AGENT_ID
            /\ panel' = [panel EXCEPT !.clear = "returned"]
       ELSE /\ panel' = [panel EXCEPT !.clear = "failed"]
            /\ UNCHANGED << db, messages, messagesProjectId, currentAgentId >>
  /\ UNCHANGED << isLoading, error, abortController, aborted, files, dbFiles,
                  pendingRunPreview, versions, pc, exception, send, loop, provider, nextId,
                  hist, signal, bg, turn, live, sandbox, input, parsedInput, route, restore >>

\* The messages the panel offers to delete: the button is hidden while a
\* message is streaming.
Deletable == { n \in 1..Len(messages) : ~messages[n].isStreaming /\ messages[n].id # 0 }

\* deleteMessage(activeProject.id, messageId), from the call to its
\* return, clicked while no insert is under way; a delete that fails
\* changes nothing.
DeleteMessage ==
  /\ panel.activeProject = ProjectId
  /\ BetweenTasks
  /\ ~InsertInFlight
  /\ Cardinality(panel.deleted) < MaxDeletes
  /\ \E n \in Deletable :
       /\ db' = SelectSeq(db, LAMBDA r : r.id # messages[n].id)
       /\ messages' = SelectSeq(messages, LAMBDA m : m.id # messages[n].id)
       /\ panel' = [panel EXCEPT !.deleted = @ \cup {messages[n].id}]
  /\ UNCHANGED << messagesProjectId, isLoading, error, abortController, aborted,
                  currentAgentId, files, dbFiles, pendingRunPreview, versions, pc, exception,
                  send, loop, provider, nextId, hist, signal, bg, turn, live, sandbox,
                  input, parsedInput, route, restore >>

Next ==
  \/ \E mention \in Mentions, script \in Scripts : SendMessage(mention, script)
  \/ InsertUserMessage
  \/ BeginIteration
  \/ \E outcome \in {"ok", "http_error", "network_error", "aborted"} : FetchSettles(outcome)
  \/ ReadChunk
  \/ ReadFails
  \/ ReadDone
  \/ ExecStart
  \/ \E env \in {"ok", "fail", "throw", "timeout"} : ExecFinish(env)
  \/ AfterTool
  \/ \E env \in {"ok", "fail"} : RefreshFiles(env)
  \/ Persist
  \/ LoopExit
  \/ Snapshot
  \/ ReturnToLeader
  \/ ReturnToDelegation
  \/ RoundStart
  \/ StartNested
  \/ Feedback
  \/ Complete
  \/ Catch
  \/ StopGeneration

Spec == Init /\ [][Next]_vars

\* Two sendMessage calls that overlap, for turns without delegation whose
\* provider follows the script "short".
NextTwo ==
  \/ SendMessage("none", "short")
  \/ SendMessageAgain("none", "short")
  \/ Resume
  \/ InsertUserMessage
  \/ BeginIteration
  \/ \E outcome \in {"ok", "http_error", "network_error", "aborted"} : FetchSettles(outcome)
  \/ ReadChunk
  \/ ReadFails
  \/ ReadDone
  \/ ExecStart
  \/ \E env \in {"ok", "fail", "throw", "timeout"} : ExecFinish(env)
  \/ AfterTool
  \/ \E env \in {"ok", "fail"} : RefreshFiles(env)
  \/ Persist
  \/ LoopExit
  \/ Snapshot
  \/ ReturnToLeader
  \/ Complete
  \/ Catch
  \/ StopGeneration

SpecTwo == Init /\ [][NextTwo]_vars

\* Turns that follow one another, and a reload of the conversation, for
\* turns without delegation whose provider follows the script "short".
NextTurns ==
  \/ \E mention \in {"none", "leader"} : SendMessage(mention, "short")
  \/ \E mention \in {"none", "leader"} : SendMessageNext(mention, "short")
  \/ \E env \in {"ok", "fail"}, now \in Times : FetchMessages(env, now)
  \/ InsertUserMessage
  \/ BeginIteration
  \/ \E outcome \in {"ok", "http_error", "network_error", "aborted"} : FetchSettles(outcome)
  \/ ReadChunk
  \/ ReadFails
  \/ ReadDone
  \/ ExecStart
  \/ \E env \in {"ok", "fail", "throw", "timeout"} : ExecFinish(env)
  \/ AfterTool
  \/ \E env \in {"ok", "fail"} : RefreshFiles(env)
  \/ Persist
  \/ LoopExit
  \/ Snapshot
  \/ ReturnToLeader
  \/ Complete
  \/ Catch
  \/ StopGeneration

SpecTurns == Init /\ [][NextTurns]_vars

\* One sendMessage call for the project the panel shows, whose provider
\* follows the script "short", while the user changes the project, clears
\* the history or deletes a message.
NextPanel ==
  \/ handleSend
  \/ \E projectId \in {ProjectId, OtherProjectId} : SelectProject(projectId)
  \/ FetchMessagesBegin
  \/ \E env \in {"ok", "fail"}, now \in Times : FetchMessagesSettles(env, now)
  \/ ClearHistory
  \/ \E env \in {"ok", "fail"} : ClearHistorySettles(env)
  \/ DeleteMessage
  \/ InsertUserMessage
  \/ BeginIteration
  \/ \E outcome \in {"ok", "http_error", "network_error", "aborted"} : FetchSettles(outcome)
  \/ ReadChunk
  \/ ReadFails
  \/ ReadDone
  \/ ExecStart
  \/ \E env \in {"ok", "fail", "throw", "timeout"} : ExecFinish(env)
  \/ AfterTool
  \/ \E env \in {"ok", "fail"} : RefreshFiles(env)
  \/ Persist
  \/ LoopExit
  \/ Snapshot
  \/ ReturnToLeader
  \/ Complete
  \/ Catch
  \/ StopGeneration

SpecPanel == Init /\ [][NextPanel]_vars

(***************************************************************************)
(* The version store: restoreVersion.                                      *)
(***************************************************************************)
\* The paths and contents a row of files or version_files can have.
RestorePaths == {FilePath, "b.ts"}
RestoreContents == {"v1", "v2"}

\* Sets of rows with one row for a path at most.
FileRows ==
  { rows \in SUBSET [path : RestorePaths, content : RestoreContents] :
      \A r1, r2 \in rows : r1.path = r2.path => r1 = r2 }

\* restoreVersion is called for a version of the project; the project's
\* rows in the files table are those of the files the table holds.
InitRestore ==
  /\ Constructed
  /\ input = <<>>
  /\ route = NoRoute
  /\ \E versionFiles \in FileRows :
       LET table == { [path |-> path, content |-> "v2"] : path \in dbFiles }
       IN restore = [pc |-> "select", versionFiles |-> versionFiles, table |-> table,
                     before |-> table, ret |-> "none"]

\* from('version_files').select: an error, or a version without rows, is
\* thrown and the catch block returns false.
RestoreSelect(env) ==
  /\ restore.pc = "select"
  /\ restore' = IF env = "ok" /\ restore.versionFiles # {}
                  THEN [restore EXCEPT !.pc = "delete"]
                  ELSE [restore EXCEPT !.pc = "returned", !.ret = FALSE]
  /\ UNCHANGED << messages, messagesProjectId, isLoading, error, abortController, aborted,
                  currentAgentId, db, files, dbFiles, pendingRunPreview, versions,
                  pc, exception, send, loop, provider, nextId, hist, signal, bg,
                  turn, live, sandbox, input, parsedInput, route, panel >>

\* from('files').delete().eq('project_id', projectId)
RestoreDelete(env) ==
  /\ restore.pc = "delete"
  /\ restore' = IF env = "ok"
                  THEN [restore EXCEPT !.pc = "insert", !.table = {}]
                  ELSE [restore EXCEPT !.pc = "returned", !.ret = FALSE]
  /\ dbFiles' = IF env = "ok" THEN {} ELSE dbFiles
  /\ UNCHANGED << messages, messagesProjectId, isLoading, error, abortController, aborted,
                  currentAgentId, db, files, pendingRunPreview, versions,
                  pc, exception, send, loop, provider, nextId, hist, signal, bg,
                  turn, live, sandbox, input, parsedInput, route, panel >>

\* from('files').insert(newFiles): the rows of the version become the rows
\* of the project, or the error is thrown and the catch block returns false.
RestoreInsert(env) ==
  /\ restore.pc = "insert"
  /\ restore' = IF env = "ok"
                  THEN [restore EXCEPT !.pc = "refresh", !.table = restore.versionFiles]
                  ELSE [restore EXCEPT !.pc = "returned", !.ret = FALSE]
  /\ dbFiles' = IF env = "ok" THEN { r.path : r \in restore.versionFiles } ELSE dbFiles
  /\ UNCHANGED << messages, messagesProjectId, isLoading, error, abortController, aborted,
                  currentAgentId, db, files, pendingRunPreview, versions,
                  pc, exception, send, loop, provider, nextId, hist, signal, bg,
                  turn, live, sandbox, input, parsedInput, route, panel >>

\* previewStore.fetchFiles(projectId), which keeps its errors to itself,
\* then restoreVersion returns true.
RestoreRefresh(env) ==
  /\ restore.pc = "refresh"
  /\ files' = fetchFiles(files, dbFiles, env)
  /\ restore' = [restore EXCEPT !.pc = "returned", !.ret = TRUE]
  /\ UNCHANGED << messages, messagesProjectId, isLoading, error, abortController, aborted,
                  currentAgentId, db, dbFiles, pendingRunPreview, versions,
                  pc, exception, send, loop, provider, nextId, hist, signal, bg,
                  turn, live, sandbox, input, parsedInput, route, panel >>

NextRestore ==
  \/ \E env \in {"ok", "fail"} : RestoreSelect(env)
  \/ \E env \in {"ok", "fail"} : RestoreDelete(env)
  \/ \E env \in {"ok", "fail"} : RestoreInsert(env)
  \/ \E env \in {"ok", "fail"} : RestoreRefresh(env)

SpecRestore == InitRestore /\ [][NextRestore]_vars

(***************************************************************************)
(* The preview panel: the command queue of the preview store, the panel's  *)
(* command effect and executeCommand, the sandbox of lib/webcontainer.     *)
(***************************************************************************)
\* What the panel and the sandbox leave alone.
chat == << messages, messagesProjectId, isLoading, error, abortController, aborted,
           currentAgentId, db, dbFiles, versions, pc, exception, send, loop, provider,
           nextId, hist, signal, bg, turn, live, aside >>

\* The ids that were queued so far.
Queued == { id \in CommandIds : commands[id].promise # "none" }

InQueue(pending, id) == \E n \in 1..Len(pending) : pending[n] = id

\* state.pendingCommands.filter(c => c.id !== id)
WithoutCommand(pending, id) == SelectSeq(pending, LAMBDA c : c # id)

\* setIsSupported(isWebContainerSupported()): the effect of the mount; what
\* it finds does not change later.
CheckSupport(supported) ==
  /\ isSupported
  /\ isSupported' = supported
  /\ UNCHANGED << chat, files, pendingRunPreview, pendingCommands, commands, effectDue, runs,
                  webcontainerInstance, bootPromise, boots, liveInstances, webContainerRef,
                  preview >>

\* queueCommand: a promise, its 5-minute timer, and the command at the end
\* of pendingCommands; the change of pendingCommands makes the effect due.
QueueCommand ==
  /\ Cardinality(Queued) < MaxCommands
  /\ LET id == Cardinality(Queued) + 1
     IN /\ commands' = [commands EXCEPT ![id] = [promise |-> "pending", result |-> "none",
                                                 timer |-> "armed"]]
        /\ pendingCommands' = Append(pendingCommands, id)
  /\ effectDue' = TRUE
  /\ UNCHANGED << chat, files, pendingRunPreview, runs, webcontainerInstance, bootPromise,
                  boots, liveInstances, webContainerRef, isSupported, preview >>

\* The timer of queueCommand fires (timers of one length fire in the order
\* they were set): a command that is still pending is removed and its
\* promise resolves with the timeout text; for one that is not, nothing.
StoreTimerFires(id) ==
  /\ commands[id].timer = "armed"
  /\ \A j \in 1..(id - 1) : commands[j].timer # "armed"
  /\ IF InQueue(pendingCommands, id)
       THEN /\ pendingCommands' = WithoutCommand(pendingCommands, id)
            /\ commands' = [commands EXCEPT ![id] = [promise |-> "resolved",
                                                     result |-> "store_timeout",
                                                     timer |-> "fired"]]
            /\ effectDue' = TRUE
       ELSE /\ commands' = [commands EXCEPT ![id].timer = "fired"]
            /\ UNCHANGED << pendingCommands, effectDue >>
  /\ UNCHANGED << chat, files, pendingRunPreview, runs, webcontainerInstance, bootPromise,
                  boots, liveInstances, webContainerRef, isSupported, preview >>

\* resolveCommand / rejectCommand: the wrapped resolve or reject of a command
\* that is still pending clears the timer and settles the promise.
SettledCommands(cmds, pending, id, how, result) ==
  IF InQueue(pending, id)
    THEN [cmds EXCEPT ![id] = [promise |-> how, result |-> result, timer |-> "cleared"]]
    ELSE cmds

\* clearFiles: the store's lists are emptied, pendingCommands among them.
ClearFiles ==
  /\ files' = {}
  /\ pendingRunPreview' = FALSE
  /\ pendingCommands' = <<>>
  /\ effectDue' = TRUE
  /\ UNCHANGED << chat, commands, runs, webcontainerInstance, bootPromise, boots,
                  liveInstances, webContainerRef, isSupported, preview >>

\* A variant of the test below that does not look at the boot promise.
MustBootIgnoringPromise(instance, promise) == instance = 0

\* getWebContainer boots when there is no instance and no boot promise.
MustBoot(instance, promise) == instance = 0 /\ promise.state = "null"

\* getWebContainer up to its await, for a caller: the instance at once, or
\* the promise of the boot in progress (which may have rejected), or a new
\* boot.
getWebContainer(caller) ==
  IF webcontainerInstance # 0
    THEN [caller |-> [caller EXCEPT !.pc = "got", !.got = webcontainerInstance],
          bootPromise |-> bootPromise, boots |-> boots]
  ELSE IF MustBoot(webcontainerInstance, bootPromise)
    THEN [caller |-> [caller EXCEPT !.pc = "await"],
          bootPromise |-> [state |-> "pending", id |-> boots + 1], boots |-> boots + 1]
  ELSE IF bootPromise.state = "pending"
    THEN [caller |-> [caller EXCEPT !.pc = "await", !.during = bootPromise.id],
          bootPromise |-> bootPromise, boots |-> boots]
  ELSE [caller |-> [caller EXCEPT !.pc = "failed"],
        bootPromise |-> bootPromise, boots |-> boots]

\* getWebContainer would call WebContainer.boot() one time too many for the model.
BootAllowed == MustBoot(webcontainerInstance, bootPromise) => boots < MaxBoots

\* teardownWebContainer
TornDown(instances) == instances \ {webcontainerInstance}

\* executeCommand after it has its webcontainer: it mounts the files when
\* it booted, then spawns.
AfterGot(run, booted) ==
  IF run.pc = "got" THEN [run EXCEPT !.pc = IF booted /\ files # {} THEN "mount" ELSE "spawn"]
  ELSE IF run.pc = "failed" THEN [run EXCEPT !.pc = "reject"]
  ELSE run

\* A call of executeCommand at its entry.
NewRun(id) ==
  [cmd |-> id, pc |-> "idle", during |-> 0, got |-> 0,
   process |-> "none", timer |-> "none", race |-> "pending", notice |-> FALSE]

\* The panel's command effect runs after pendingCommands changed: it takes
\* the first pending command and calls executeCommand, which uses the
\* panel's webcontainer or gets one.
ProcessCommands ==
  /\ effectDue
  /\ effectDue' = FALSE
  /\ IF pendingCommands # <<>> /\ isSupported
       THEN /\ Len(runs) < MaxRuns
            /\ IF webContainerRef # 0
                 THEN /\ runs' = Append(runs, AfterGot([NewRun(Head(pendingCommands)) EXCEPT
                                                          !.pc = "got", !.got = webContainerRef],
                                                        FALSE))
                      /\ UNCHANGED << bootPromise, boots, webContainerRef >>
                 ELSE /\ BootAllowed
                      /\ LET call == getWebContainer(NewRun(Head(pendingCommands)))
                         IN /\ runs' = Append(runs, AfterGot(call.caller, TRUE))
                            /\ bootPromise' = call.bootPromise
                            /\ boots' = call.boots
                            /\ webContainerRef' = call.caller.got
       ELSE UNCHANGED << runs, bootPromise, boots, webContainerRef >>
  /\ UNCHANGED << chat, files, pendingRunPreview, pendingCommands, commands,
                  webcontainerInstance, liveInstances, isSupported, preview >>

\* A caller that awaits the boot receives its outcome.
Received(caller, instance) ==
  IF caller.pc # "await" THEN caller
  ELSE IF instance = 0 THEN [caller EXCEPT !.pc = "failed"]
  ELSE [caller EXCEPT !.pc = "got", !.got = instance]

\* WebContainer.boot() resolves: getWebContainer stores the instance and
\* forgets the promise, and everyone who awaits the boot goes on.
BootResolves ==
  /\ bootPromise.state = "pending"
  /\ webcontainerInstance' = bootPromise.id
  /\ liveInstances' = liveInstances \cup {bootPromise.id}
  /\ bootPromise' = NoBoot
  /\ runs' = [e \in 1..Len(runs) |-> AfterGot(Received(runs[e], bootPromise.id), TRUE)]
  /\ preview' = IF preview.pc = "await"
                  THEN [Received(preview, bootPromise.id) EXCEPT !.pc = "ready"]
                  ELSE preview
  /\ webContainerRef' =
       IF preview.pc = "await" \/ \E e \in 1..Len(runs) : runs[e].pc = "await"
         THEN bootPromise.id ELSE webContainerRef
  /\ UNCHANGED << chat, files, pendingRunPreview, pendingCommands, commands, effectDue,
                  boots, isSupported >>

\* WebContainer.boot() rejects: the await in getWebContainer throws, the
\* promise stays where it is, and everyone who awaits the boot fails.
BootRejects ==
  /\ bootPromise.state = "pending"
  /\ bootPromise' = [bootPromise EXCEPT !.state = "rejected"]
  /\ runs' = [e \in 1..Len(runs) |-> AfterGot(Received(runs[e], 0), TRUE)]
  /\ preview' = Received(preview, 0)
  /\ UNCHANGED << chat, files, pendingRunPreview, pendingCommands, commands, effectDue,
                  webcontainerInstance, boots, liveInstances, webContainerRef, isSupported >>

\* webcontainer.mount settles; on a sandbox that was torn down it rejects.
MountSettles(e, env) ==
  /\ e \in 1..Len(runs)
  /\ runs[e].pc = "mount"
  /\ env = "ok" => runs[e].got \in liveInstances
  /\ runs' = [runs EXCEPT ![e].pc = IF env = "ok" THEN "spawn" ELSE "reject"]
  /\ UNCHANGED << chat, files, pendingRunPreview, pendingCommands, commands, effectDue,
                  webcontainerInstance, bootPromise, boots, liveInstances, webContainerRef,
                  isSupported, preview >>

\* webcontainer.spawn settles: the process runs and executeCommand sets its
\* own 5-minute timer and awaits the race; on a sandbox that was torn down
\* it rejects.
SpawnSettles(e, env) ==
  /\ e \in 1..Len(runs)
  /\ runs[e].pc = "spawn"
  /\ env = "ok" => runs[e].got \in liveInstances
  /\ runs' = IF env = "ok"
               THEN [runs EXCEPT ![e].pc = "race", ![e].process = "running",
                                 ![e].timer = "armed"]
               ELSE [runs EXCEPT ![e].pc = "reject"]
  /\ UNCHANGED << chat, files, pendingRunPreview, pendingCommands, commands, effectDue,
                  webcontainerInstance, bootPromise, boots, liveInstances, webContainerRef,
                  isSupported, preview >>

\* executeCommand threw: the effect calls rejectCommand.
RejectCommand(e) ==
  /\ e \in 1..Len(runs)
  /\ runs[e].pc = "reject"
  /\ runs' = [runs EXCEPT ![e].pc = "done"]
  /\ commands' = SettledCommands(commands, pendingCommands, runs[e].cmd, "rejected", "error")
  /\ pendingCommands' = WithoutCommand(pendingCommands, runs[e].cmd)
  /\ effectDue' = (effectDue \/ InQueue(pendingCommands, runs[e].cmd))
  /\ UNCHANGED << chat, files, pendingRunPreview, webcontainerInstance, bootPromise, boots,
                  liveInstances, webContainerRef, isSupported, preview >>

\* The process ends and its output is complete: when the race is still
\* open, executeCommand returns the output and the effect calls
\* resolveCommand.
ProcessExits(e) ==
  /\ e \in 1..Len(runs)
  /\ runs[e].process = "running"
  /\ IF runs[e].race = "pending"
       THEN /\ runs' = [runs EXCEPT ![e].process = "exited", ![e].race = "settled",
                                    ![e].pc = "done"]
            /\ commands' = SettledCommands(commands, pendingCommands, runs[e].cmd,
                                           "resolved", "output")
            /\ pendingCommands' = WithoutCommand(pendingCommands, runs[e].cmd)
            /\ effectDue' = (effectDue \/ InQueue(pendingCommands, runs[e].cmd))
       ELSE /\ runs' = [runs EXCEPT ![e].process = "exited"]
            /\ UNCHANGED << commands, pendingCommands, effectDue >>
  /\ UNCHANGED << chat, files, pendingRunPreview, webcontainerInstance, bootPromise, boots,
                  liveInstances, webContainerRef, isSupported, preview >>

\* The timer of executeCommand fires (it was set after the command's store
\* timer, for the same length; nothing clears it): process.kill(), the
\* notice in the terminal, and, when the race is still open, the timeout
\* text as the result that the effect hands to resolveCommand.
ExecTimerFires(e) ==
  /\ e \in 1..Len(runs)
  /\ runs[e].timer = "armed"
  /\ commands[runs[e].cmd].timer # "armed"
  /\ IF runs[e].race = "pending"
       THEN /\ runs' = [runs EXCEPT ![e].timer = "fired", ![e].notice = TRUE,
                                    ![e].process = IF @ = "running" THEN "killed" ELSE @,
                                    ![e].race = "settled", ![e].pc = "done"]
            /\ commands' = SettledCommands(commands, pendingCommands, runs[e].cmd,
                                           "resolved", "exec_timeout")
            /\ pendingCommands' = WithoutCommand(pendingCommands, runs[e].cmd)
            /\ effectDue' = (effectDue \/ InQueue(pendingCommands, runs[e].cmd))
       ELSE /\ runs' = [runs EXCEPT ![e].timer = "fired", ![e].notice = TRUE,
                                    ![e].process = IF @ = "running" THEN "killed" ELSE @]
            /\ UNCHANGED << commands, pendingCommands, effectDue >>
  /\ UNCHANGED << chat, files, pendingRunPreview, webcontainerInstance, bootPromise, boots,
                  liveInstances, webContainerRef, isSupported, preview >>

\* runPreview with files to run: the sandbox is torn down, the panel
\* forgets its webcontainer and gets one.
RunPreview ==
  /\ files # {}
  /\ preview.pc \in {"idle", "ready", "failed"}
  /\ liveInstances' = TornDown(liveInstances)
  /\ LET instance == 0
         promise  == bootPromise
     IN IF MustBoot(instance, promise)
          THEN /\ boots < MaxBoots
               /\ bootPromise' = [state |-> "pending", id |-> boots + 1]
               /\ boots' = boots + 1
               /\ preview' = [NoCaller EXCEPT !.pc = "await"]
          ELSE /\ preview' = IF promise.state = "pending"
                               THEN [NoCaller EXCEPT !.pc = "await", !.during = promise.id]
                               ELSE [NoCaller EXCEPT !.pc = "failed"]
               /\ UNCHANGED << bootPromise, boots >>
  /\ webcontainerInstance' = 0
  /\ webContainerRef' = 0
  /\ UNCHANGED << chat, files, pendingRunPreview, pendingCommands, commands, effectDue, runs,
                  isSupported >>

\* handleStopPreview: the sandbox is torn down and the panel forgets it.
StopPreview ==
  /\ webcontainerInstance # 0 \/ webContainerRef # 0
  /\ liveInstances' = TornDown(liveInstances)
  /\ webcontainerInstance' = 0
  /\ webContainerRef' = 0
  /\ UNCHANGED << chat, files, pendingRunPreview, pendingCommands, commands, effectDue, runs,
                  bootPromise, boots, isSupported, preview >>

\* The panel's fetchFiles for the active project settles: on success the
\* store holds a new file list, so executeCommand is a new callback and the
\* command effect, which depends on it, is due.
PanelFetchFiles(env) ==
  /\ files' = fetchFiles(files, dbFiles, env)
  /\ effectDue' = (effectDue \/ env = "ok")
  /\ UNCHANGED << chat, pendingRunPreview, pendingCommands, commands, runs,
                  webcontainerInstance, bootPromise, boots, liveInstances, webContainerRef,
                  isSupported, preview >>

NextSandbox ==
  \/ \E supported \in BOOLEAN : CheckSupport(supported)
  \/ \E env \in {"ok", "fail"} : PanelFetchFiles(env)
  \/ QueueCommand
  \/ \E id \in CommandIds : StoreTimerFires(id)
  \/ ClearFiles
  \/ ProcessCommands
  \/ BootResolves
  \/ BootRejects
  \/ \E e \in 1..MaxRuns, env \in {"ok", "fail"} : MountSettles(e, env)
  \/ \E e \in 1..MaxRuns, env \in {"ok", "fail"} : SpawnSettles(e, env)
  \/ \E e \in 1..MaxRuns : RejectCommand(e)
  \/ \E e \in 1..MaxRuns : ProcessExits(e)
  \/ \E e \in 1..MaxRuns : ExecTimerFires(e)
  \/ RunPreview
  \/ StopPreview

SpecSandbox == Init /\ [][NextSandbox]_vars

\* The callers of lib/webcontainer alone: the steps that call
\* getWebContainer or teardownWebContainer, or make such a call come about,
\* and the two outcomes of a boot.  What a command does once it has its
\* webcontainer reads and writes nothing of lib/webcontainer.
NextBoot ==
  \/ \E supported \in BOOLEAN : CheckSupport(supported)
  \/ \E env \in {"ok", "fail"} : PanelFetchFiles(env)
  \/ QueueCommand
  \/ ClearFiles
  \/ ProcessCommands
  \/ BootResolves
  \/ BootRejects
  \/ RunPreview
  \/ StopPreview

SpecBoot == Init /\ [][NextBoot]_vars

\* Timers fire, and a boot, a mount and a spawn settle; a process need not
\* ever end.
SpecSandboxFair ==
  /\ SpecSandbox
  /\ \A id \in CommandIds : WF_vars(StoreTimerFires(id))
  /\ \A e \in 1..MaxRuns : WF_vars(ExecTimerFires(e))
  /\ \A e \in 1..MaxRuns : WF_vars(RejectCommand(e))
  /\ WF_vars(ProcessCommands)

(***************************************************************************)
(* Properties of the chat route.                                           *)
(***************************************************************************)
\* The tool-call fragments the route has read, in arrival order.
ToolFragments == SelectSeq(route.seen, LAMBDA f : f.kind = "tool_call")

\* The fragment indices that arrived.
FragmentIndices == { ToolFragments[n].index : n \in 1..Len(ToolFragments) }

\* The last non-empty value of a field among the fragments, "" if none.
RECURSIVE LastNonEmpty(_, _)
LastNonEmpty(frags, field) ==
  IF frags = <<>> THEN ""
  ELSE IF frags[Len(frags)][field] # "" THEN frags[Len(frags)][field]
  ELSE LastNonEmpty(SubSeq(frags, 1, Len(frags) - 1), field)

\* The argument fragments in arrival order, concatenated.
RECURSIVE Concatenated(_)
Concatenated(frags) ==
  IF frags = <<>> THEN "" ELSE Head(frags).arguments \o Concatenated(Tail(frags))

\* The call that the fragments of an index make up.
CallOfIndex(index) ==
  LET frags == SelectSeq(ToolFragments, LAMBDA f : f.index = index)
  IN [id |-> LastNonEmpty(frags, "id"), name |-> LastNonEmpty(frags, "name"),
      arguments |-> Concatenated(frags)]

\* The positions of the tool-call blocks in what the route sent.
Blocks == { n \in 1..Len(route.out) : route.out[n].kind = "sentinel" }

\* C31: when the provider's stream has ended, the route has sent the
\* tool-call block exactly once, after all text, if and only if a tool-call
\* fragment arrived; the block lists one call per fragment index, with the
\* concatenation of that index's argument fragments and the last non-empty
\* id and name received for that index.
C31_OneBlockOneCallPerIndex ==
  route.state = "closed" =>
    IF ToolFragments = <<>> THEN Blocks = {}
    ELSE /\ Blocks = { Len(route.out) }
         /\ LET calls == route.out[Len(route.out)].calls
            IN /\ Len(calls) = Cardinality(FragmentIndices)
               /\ \A index \in FragmentIndices :
                     \E n \in 1..Len(calls) : calls[n] = CallOfIndex(index)

(***************************************************************************)
(* Properties of the version store.                                        *)
(***************************************************************************)
\* C39: restoreVersion is all-or-nothing: it returns true with the
\* project's rows being exactly those of the chosen version, or it returns
\* false with the project's rows as they were before the call.
C39_RestoreAllOrNothing ==
  restore.pc = "returned" =>
    \/ restore.ret = TRUE /\ restore.table = restore.versionFiles
    \/ restore.ret = FALSE /\ restore.table = restore.before

(***************************************************************************)
(* Properties of the mention parser.                                       *)
(***************************************************************************)
\* parseMentions has returned.
Returned == parsedInput # NoParsedInput

\* C24: for every agent of the registry, an @ followed by the agent's
\* native display name or by its translated display name is recognized,
\* resolves to that agent, and is removed entirely from the stripped text.
C24_DisplayNamesRecognized ==
  \A id \in AgentIds :
    \A name \in {DisplayName(id), DisplayNameEn(id)} :
      (Returned /\ input = << "@" >> \o name \o << " ", "h", "i" >>) =>
        /\ parsedInput.agentId = id
        /\ parsedInput.mentions = << id >>
        /\ parsedInput.content = << "h", "i" >>

\* The length of the longest alias that matches behind an @ at a position,
\* 0 when there is no @ or no alias matches.
LongestAliasAt(text, at) ==
  LET lengths == { Len(MENTION_MAP[n].key) : n \in { m \in 1..Len(MENTION_MAP) :
                     /\ at + Len(MENTION_MAP[m].key) <= Len(text)
                     /\ LowerText(SubSeq(text, at + 1, at + Len(MENTION_MAP[m].key)))
                          = LowerText(MENTION_MAP[m].key) } }
  IN IF text[at] # "@" \/ lengths = {} THEN 0
     ELSE CHOOSE l \in lengths : \A k \in lengths : k <= l

\* The positions of the @ of the mentions of a text, each mention being the
\* longest alias behind its @, from left to right without overlap.
RECURSIVE MentionStarts(_, _)
MentionStarts(text, at) ==
  IF at > Len(text) THEN {}
  ELSE IF LongestAliasAt(text, at) > 0
    THEN {at} \cup MentionStarts(text, at + 1 + LongestAliasAt(text, at))
  ELSE MentionStarts(text, at + 1)

\* The positions of the text that lie in a mention span.
InMention(text) ==
  LET starts == MentionStarts(text, 1)
  IN UNION { at..(at + LongestAliasAt(text, at)) : at \in starts }

\* The text with exactly its mention spans removed.
Kept(text) ==
  LET inside == InMention(text)
      keep[n \in 0..Len(text)] ==
        IF n = 0 THEN <<>>
        ELSE IF n \in inside THEN keep[n - 1] ELSE Append(keep[n - 1], text[n])
  IN keep[Len(text)]

\* The agent an alias stands for.
AgentOf(alias) ==
  CHOOSE id \in AgentIds :
    \E n \in 1..Len(MENTION_MAP) :
      MENTION_MAP[n].id = id /\ LowerText(MENTION_MAP[n].key) = LowerText(alias)

\* The agent mentioned at a mention's @.
AgentAt(text, at) == AgentOf(SubSeq(text, at + 1, at + LongestAliasAt(text, at)))

\* The position of an agent's first mention among the mentions' positions.
FirstMention(text, starts, id) ==
  CHOOSE at \in starts :
    /\ AgentAt(text, at) = id
    /\ \A other \in starts : AgentAt(text, other) = id => at <= other

\* The mentions are the distinct mentioned agents in the order of their
\* first occurrence, and the agent is the first of them, engineer if none.
FirstOccurrenceOrder ==
  LET mentions == parsedInput.mentions
      starts   == MentionStarts(input, 1)
  IN /\ { mentions[n] : n \in 1..Len(mentions) } = { AgentAt(input, at) : at \in starts }
     /\ \A n, m \in 1..Len(mentions) :
          n < m => FirstMention(input, starts, mentions[n])
                     < FirstMention(input, starts, mentions[m])
     /\ parsedInput.agentId = IF Len(mentions) > 0 THEN mentions[1] ELSE "engineer"

\* The second text is the first one without the white space at its ends.
IsTrimOf(text, trimmed) ==
  \E from \in 1..(Len(text) + 1), to \in 0..Len(text) :
    /\ trimmed = SubSeq(text, from, to)
    /\ \A n \in 1..Len(text) : (n < from \/ n > to) => text[n] = " "
    /\ trimmed # <<>> => (trimmed[1] # " " /\ trimmed[Len(trimmed)] # " ")

\* C25 as stated: each mention is the longest alias that matches at its @,
\* the mentions are the distinct mentioned agents in order of first
\* occurrence, the agent is the first of them (engineer when there is
\* none), and the content is the input with exactly the mention spans
\* removed.
C25_ExactlySpansRemoved ==
  Returned =>
    /\ FirstOccurrenceOrder
    /\ parsedInput.content = Kept(input)

\* C25 amended: as above, but the content is the input with the mention
\* spans removed and then trimmed of the white space at its two ends.
C25_SpansRemovedAndTrimmed ==
  Returned =>
    /\ FirstOccurrenceOrder
    /\ IsTrimOf(Kept(input), parsedInput.content)

\* C25 witness: "@developer hi" was parsed: the alias developer is not
\* pre-empted by its prefix dev, and the space behind it is trimmed.
C25_Witness ==
  /\ Returned
  /\ input = << "@", "d", "e", "v", "e", "l", "o", "p", "e", "r", " ", "h", "i" >>
  /\ parsedInput.mentions = << "engineer" >>
  /\ parsedInput.content = << "h", "i" >>

\* Everyone who called getWebContainer: the runs of executeCommand and runPreview.
Callers == { runs[e] : e \in 1..Len(runs) } \cup {preview}

\* C21: every promise returned by queueCommand is eventually settled, under
\* every interleaving with resolveCommand, rejectCommand, clearFiles and the
\* 5-minute timer, so a run_command call never waits forever.
C21_EveryCommandSettles ==
  \A id \in CommandIds :
    (commands[id].promise = "pending") ~> (commands[id].promise # "pending")

\* C22: the sandbox boot is never invoked while a previous boot is still
\* unresolved or while an instance is live, and every caller that arrives
\* while a boot is in progress receives the instance produced by that boot.
C22_OneBootAtATime ==
  [][ /\ boots' # boots =>
           /\ bootPromise.state # "pending"
           /\ webcontainerInstance' = 0
           /\ liveInstances' = {}
      /\ \A c \in Callers' : (c.during # 0 /\ c.got # 0) => c.got = c.during ]_vars

\* C22 witness: a command arrived while runPreview's boot was in progress,
\* and went on with the instance of that boot.
C22_Witness ==
  \E e \in 1..Len(runs) :
    /\ runs[e].during # 0
    /\ runs[e].got = runs[e].during
    /\ runs[e].got \in liveInstances
    /\ boots = runs[e].during

\* C28: when a run_command call resolved with a timeout message, the process
\* spawned in the sandbox for that command is no longer running.
C28_TimedOutProcessTerminated ==
  \A e \in 1..Len(runs) :
    commands[runs[e].cmd].result \in {"store_timeout", "exec_timeout"}
      => runs[e].process # "running"

\* The executeCommand calls that spawned a process for a command.
Spawned(id) == { e \in 1..Len(runs) : runs[e].cmd = id /\ runs[e].process # "none" }

\* C36: each command queued by queueCommand is spawned in the sandbox at
\* most once, whatever changes of the preview store occur while it is
\* pending.
C36_SpawnedAtMostOnce ==
  \A id \in CommandIds : Cardinality(Spawned(id)) <= 1

\* C37: the timeout notice is written to the terminal, and the kill issued,
\* only for a command that had not completed when its timeout elapsed: a
\* process that ended by itself never gets the notice.
C37_NoticeOnlyForUnfinished ==
  \A e \in 1..Len(runs) : runs[e].notice => runs[e].process # "exited"

\* C38: a failed boot is recoverable: a getWebContainer call that is made
\* after a boot has rejected starts a new boot.
C38_FailedBootRecoverable ==
  [][ (/\ bootPromise.state = "rejected"
       /\ Len(runs') > Len(runs)
       /\ webContainerRef = 0) => boots' = boots + 1 ]_vars

(***************************************************************************)
(* Properties of the agent loop.                                           *)
(***************************************************************************)
\* runAgentLoop has left its while loop and is about to return.
LoopExited == pc \in {"snapshot", "return"}

\* The rows of the message table that hold message id.
RowsOf(id) == { n \in 1..Len(db) : db[n].id = id }

\* C1: when the first model response of an agent loop holds no tool call,
\* the loop ends after exactly one iteration: one provider request was
\* made, exactly one assistant message (the one of that iteration) was
\* persisted, and the loop returns no pending delegation.
C1_PlainAnswerEndsLoop ==
  /\ (loop.loopCount > 1 => hist.first # <<>>)
  /\ (LoopExited /\ hist.first = <<>>) =>
     /\ loop.loopCount = 1
     /\ hist.calls = 1
     /\ hist.saved = 1
     /\ Cardinality(RowsOf(loop.assistantMessageId)) = 1
     /\ db[Len(db)].id = loop.assistantMessageId
     /\ db[Len(db)].role = "assistant"
     /\ loop.pendingDelegations = <<>>
     /\ LoopResult(loop).delegations = <<>>

C1_Witness ==
  /\ pc = "return"
  /\ hist.first = <<>>
  /\ loop.loopCount = 1
  /\ hist.saved = 1

\* C2: when every model response holds a tool call and none is a
\* delegate_task call, the loop never exceeds maxLoops = 100 iterations, it
\* leaves the while loop only when the iteration count has reached that
\* ceiling, it returns normally (no exception, nothing pending), and the
\* number of persisted assistant messages equals the number of iterations.
C2_ToolLoopEndsAtCeiling ==
  /\ loop.loopCount <= maxLoops
  /\ (LoopExited /\ hist.allTools) =>
        /\ loop.loopCount = maxLoops
        /\ hist.calls = maxLoops
        /\ hist.saved = loop.loopCount
        /\ exception = NoException
        /\ loop.pendingDelegations = <<>>
  /\ (pc = "done" /\ hist.allTools /\ exception = NoException) =>
        /\ loop.loopCount = maxLoops
        /\ error = Null
        /\ ~isLoading

C2_Witness ==
  /\ pc = "done"
  /\ hist.allTools
  /\ exception = NoException
  /\ loop.loopCount = maxLoops
  /\ hist.saved = maxLoops
  /\ error = Null

\* The delegate_task calls among tool calls, in call order.
DelegateCalls(toolCalls) == SelectSeq(toolCalls, LAMBDA tc : tc.name = "delegate_task")

\* C3: when the tool calls of the first iteration include a delegate_task
\* call, the loop pauses after that single iteration (it does not fail in
\* it), with one provider request, and returns one pending delegation for
\* each such call, in call order, whose agentId, task, requirements and
\* context are the call's agent_id, task, requirements and context (the
\* last two '' when absent).
C3_DelegationPausesLoop ==
  (DelegateCalls(hist.first) # <<>>) =>
     LET calls == DelegateCalls(hist.first)
     IN /\ exception.origin \notin {"tool", "loop"}
        /\ LoopExited =>
              /\ loop.loopCount = 1
              /\ hist.calls = 1
              /\ hist.saved = 1
              /\ Len(loop.pendingDelegations) = Len(calls)
              /\ \A n \in 1..Len(calls) :
                    LET d == loop.pendingDelegations[n]
                        a == calls[n].arguments
                    IN /\ d.agentId = Get(a, "agent_id")
                       /\ d.task = Get(a, "task")
                       /\ d.requirements =
                            (IF "requirements" \in DOMAIN a THEN a.requirements ELSE "")
                       /\ d.context = (IF "context" \in DOMAIN a THEN a.context ELSE "")
              /\ LoopResult(loop).delegations = loop.pendingDelegations

(***************************************************************************)
(* Properties of the delegation orchestrator.                              *)
(***************************************************************************)
\* A nested loop has been started and has not returned to the orchestrator.
InNested == send.site = "nested" /\ pc # "deleg"

\* The strings of a message's content.
Parts(m) == { m.content[n] : n \in 1..Len(m.content) }

\* C4: the orchestrator runs at most maxDelegationRounds = 5 delegation
\* rounds; the initiating agent's loop is invoked once at the start and once
\* more after each round, so at most six times; after its sixth invocation
\* no nested loop is started, and when that invocation returns delegations
\* again the turn still completes normally, the delegations left pending.
C4_RoundsAreCapped ==
  /\ send.delegationRound <= maxDelegationRounds
  /\ hist.leaderRuns <= maxDelegationRounds + 1
  /\ (pc \in {"orch", "done"} /\ exception = NoException) =>
        hist.leaderRuns = send.delegationRound + 1
  /\ (hist.leaderRuns = maxDelegationRounds + 1) => send.site = "feedback" /\ pc # "deleg"
  /\ (pc = "done" /\ exception = NoException /\ Len(send.leaderResult.delegations) > 0) =>
        /\ send.delegationRound = maxDelegationRounds
        /\ error = Null
        /\ ~isLoading
        /\ currentAgentId = send.agentId

C4_Witness ==
  /\ pc = "done"
  /\ exception = NoException
  /\ hist.leaderRuns = maxDelegationRounds + 1
  /\ send.delegationRound = maxDelegationRounds
  /\ Len(send.leaderResult.delegations) > 0
  /\ error = Null

\* C5: a nested loop runs the agent a delegation of the initiating agent
\* names, with the initiating agent as its delegator; the loops of the
\* initiating agent have no delegator.  Only delegations the initiating
\* agent returned are executed: the nested loops of a round are the
\* round's delegations in order, the number of nested loops never exceeds
\* the number of delegations the initiating agent returned, and the
\* delegations a nested loop returns start no loop.
C5_NestedDelegationsIgnored ==
  /\ hist.nestedRuns <= hist.owed
  /\ InNested =>
        /\ send.i \in 1..Len(send.leaderResult.delegations)
        /\ loop.currentAgentId = send.leaderResult.delegations[send.i].agentId
        /\ loop.delegatedFrom = send.agentId
        /\ Len(hist.roundRuns) = send.i
  /\ (send.site \in {"initial", "feedback"}) => loop.delegatedFrom = Undefined
  /\ (send.site = "nested") =>
        /\ Len(hist.roundRuns) <= Len(send.leaderResult.delegations)
        /\ hist.roundRuns = SubSeq(send.leaderResult.delegations, 1, Len(hist.roundRuns))
  /\ (pc = "orch") => hist.nestedRuns = hist.owed
  /\ (pc = "done" /\ exception = NoException) => hist.nestedRuns = hist.owed

C5_Witness ==
  /\ pc = "done"
  /\ exception = NoException
  /\ hist.ignored > 0
  /\ hist.nestedRuns > 0
  /\ hist.nestedRuns = hist.owed

StatusStep(a, b) ==
  \/ a = b
  \/ a = "pending" /\ b = "running"
  \/ a = "running" /\ b \in {"completed", "error"}

\* C7: the status of every tool call is monotonic: in every step it stays
\* as it is, moves from pending to running, or moves from running to
\* completed or to error; a call that reached completed or error keeps
\* that status.
C7_StatusMonotonic ==
  [][ \A m \in 1..Len(messages) :
        \A k \in 1..Len(messages[m].toolCalls) :
          (m <= Len(messages') /\ k <= Len(messages'[m].toolCalls)) =>
             StatusStep(messages[m].toolCalls[k].status, messages'[m].toolCalls[k].status)
    ]_vars

Persisted(id) == RowsOf(id) # {}

Terminal(tc) == tc.status \in {"completed", "error"}

AssistantMessages == { n \in 1..Len(messages) : messages[n].role = "assistant" }

\* C8 as stated: every assistant message is either streaming and not
\* persisted, or not streaming, persisted and with every tool call in a
\* terminal status.
C8_StreamingOrFinalized ==
  \A n \in AssistantMessages :
    LET m == messages[n]
    IN IF m.isStreaming
         THEN ~Persisted(m.id)
         ELSE /\ Persisted(m.id)
              /\ \A k \in 1..Len(m.toolCalls) : Terminal(m.toolCalls[k])

\* C8 amended: a streaming assistant message is not persisted, and a
\* persisted assistant message is not streaming and has every tool call in
\* a terminal status; a message whose stream has ended is not streaming
\* and not yet persisted while its tool calls are pending or running.
C8_PersistedIsFinalized ==
  \A n \in AssistantMessages :
    LET m == messages[n]
    IN /\ m.isStreaming => ~Persisted(m.id)
       /\ Persisted(m.id) =>
            /\ ~m.isStreaming
            /\ \A k \in 1..Len(m.toolCalls) : Terminal(m.toolCalls[k])

C8_Witness ==
  \E n, o \in AssistantMessages :
    /\ Persisted(messages[n].id)
    /\ messages[n].toolCalls # <<>>
    /\ \A k \in 1..Len(messages[n].toolCalls) : Terminal(messages[n].toolCalls[k])
    /\ ~messages[o].isStreaming
    /\ ~Persisted(messages[o].id)
    /\ \E k \in 1..Len(messages[o].toolCalls) : messages[o].toolCalls[k].status = "running"

(***************************************************************************)
(* Properties of failures during tool execution.                           *)
(***************************************************************************)
\* C9: no failure during a tool call leaves executeToolCall as an
\* exception or ends the loop: every call returns a result text, the loop
\* collects that text as the call's result and executes every call of the
\* iteration, and the history of the next model round holds the text under
\* the call's id.
C9_ToolFailuresStayLocal ==
  /\ exception.origin # "tool"
  /\ \A k \in 1..Len(hist.outs) : hist.outs[k].text \notin {Undefined, Null}
  /\ \A k \in 1..Len(loop.toolResults) :
        /\ k <= Len(hist.outs)
        /\ loop.toolResults[k].toolCallId = hist.outs[k].id
        /\ loop.toolResults[k].result = hist.outs[k].text
  /\ (pc \in {"refresh", "persist"} /\ loop.toolCalls # <<>>) =>
        Len(hist.outs) = Len(loop.toolCalls)
  /\ (pc \in {"fetch", "read"} /\ loop.loopCount > 1) =>
        LET last == loop.conversationMessages[Len(loop.conversationMessages)]
        IN /\ hist.outs # <<>>
           /\ last.role = "user"
           /\ \A k \in 1..Len(hist.outs) :
                 ("### " \o hist.outs[k].id \o "\n" \o hist.outs[k].text) \in Parts(last)

C9_Witness ==
  /\ pc = "fetch"
  /\ loop.loopCount = 2
  /\ Len(hist.outs) >= 2
  /\ hist.outs[1].failure
  /\ exception = NoException

\* JSON.parse rejected the call's argument string.
RawFallback(tc) == "_raw" \in DOMAIN tc.arguments

\* C10: a tool call whose argument string cannot be parsed does not abort
\* the turn, whatever its tool name: no exception arises from executing
\* the calls of its iteration, the iteration ends with its assistant
\* message persisted, and the turn does not end with an error.
C10_UnparsableArgumentsTolerated ==
  (\E k \in 1..Len(loop.toolCalls) : RawFallback(loop.toolCalls[k])) =>
     /\ exception.origin \notin {"tool", "loop", "orchestrator"}
     /\ (pc \in {"loop_head", "snapshot", "return"}) => Persisted(loop.assistantMessageId)
     /\ (pc = "done" /\ ~hist.stopped /\ ~hist.transport) => error = Null

\* C11: when the file store fails to upsert the file of a write_file call,
\* the call ends with status error and a result text other than
\* 'File written: <path>'.
C11_FailedWriteIsAnError ==
  \A k \in 1..Len(hist.outs) :
    (hist.outs[k].call.name = "write_file" /\ hist.outs[k].failure) =>
       /\ hist.outs[k].status = "error"
       /\ hist.outs[k].text # "File written: " \o Get(hist.outs[k].call.arguments, "path")

(***************************************************************************)
(* Properties of cancellation and transport failures.                      *)
(***************************************************************************)
\* The model call of the running iteration failed or was cancelled.
CallFailed == exception.origin \in {"callAI", "fetch", "read"}

\* C12: while a model call is under way, and after it was cancelled or
\* failed in transport, the in-flight assistant message of the iteration is
\* not in the message table, and the table is what it was when the call
\* began.
C12_FailedCallPersistsNothing ==
  /\ (pc \in {"fetch", "read"}) =>
        /\ ~Persisted(loop.assistantMessageId)
        /\ db = hist.dbAtCall
  /\ CallFailed =>
        /\ pc \in {"catch", "done"}
        /\ ~Persisted(loop.assistantMessageId)
        /\ db = hist.dbAtCall

C12_Witness ==
  /\ pc = "done"
  /\ CallFailed
  /\ loop.loopCount = 2
  /\ loop.rawContent # <<>>
  /\ Len(db) = 2
  /\ \E n \in AssistantMessages : messages[n].id = loop.assistantMessageId
                                    /\ messages[n].content # ""

\* C14: a session that ends because of stopGeneration leaves error null; a
\* session that ends because of a transport failure (network failure or
\* non-2xx response) sets error to the failure's message; in both cases
\* isLoading is false at the end.
C14_StopIsNotAnError ==
  /\ (pc = "done") => ~isLoading
  /\ (pc = "done" /\ CallFailed /\ ~hist.transport) =>
        /\ hist.stopped
        /\ error = Null
  /\ (pc = "done" /\ CallFailed /\ hist.transport) =>
        /\ error = exception.message
        /\ error \in {"Failed to get AI response", "Failed to fetch", "network error"}

C14_Witness ==
  /\ pc = "done"
  /\ exception.name = "AbortError"
  /\ hist.stopped
  /\ ~hist.transport
  /\ error = Null
  /\ ~isLoading

(***************************************************************************)
(* Properties of the order of tool execution.                              *)
(***************************************************************************)
\* C16: the tool calls of a response are executed one after another in the
\* order of the response: a call has left pending only when every earlier
\* call of its message is in a terminal status, and the collected results
\* are those of the first calls of the response, in the same order.
C16_ToolsRunInOrder ==
  /\ \A n \in AssistantMessages :
        \A k \in 1..Len(messages[n].toolCalls) :
          messages[n].toolCalls[k].status # "pending" =>
            \A j \in 1..(k - 1) : Terminal(messages[n].toolCalls[j])
  /\ Len(loop.toolResults) <= Len(loop.toolCalls)
  /\ \A k \in 1..Len(loop.toolResults) :
        loop.toolResults[k].toolCallId = loop.toolCalls[k].id
  /\ (pc \in {"exec", "tool", "after_tool"}) =>
        /\ loop.i \in 1..Len(loop.toolCalls)
        /\ Len(loop.toolResults) = loop.i - 1

C16_Witness ==
  /\ pc = "tool"
  /\ loop.i = 2
  /\ Len(loop.toolResults) = 1
  /\ \E n \in AssistantMessages :
        /\ messages[n].id = loop.assistantMessageId
        /\ Terminal(messages[n].toolCalls[1])
        /\ messages[n].toolCalls[2].status = "running"

\* C32: all tool calls of a response are executed even when an earlier one
\* is delegate_task: once a delegate_task call of the response has run, the
\* loop leaves the calls only after every call has run, in order, and with
\* one pending delegation for each delegate_task call of the response.
C32_CallsAfterDelegationRun ==
  (/\ \E k \in 1..Len(hist.outs) : hist.outs[k].call.name = "delegate_task"
   /\ pc \notin {"exec", "tool", "after_tool"}) =>
     /\ Len(hist.outs) = Len(loop.toolCalls)
     /\ \A k \in 1..Len(hist.outs) : hist.outs[k].id = loop.toolCalls[k].id
     /\ Len(loop.pendingDelegations) = Len(DelegateCalls(loop.toolCalls))

\* A response's calls include one that modifies files.
ModifiesFiles(toolCalls) ==
  \E n \in 1..Len(toolCalls) :
    toolCalls[n].name \in {"write_file", "update_file", "delete_file"}

Executing == pc \in {"tool", "after_tool"}

\* The names of an agent's tool list.
AllowedTools(id) == { getAgent(id).tools[n] : n \in 1..Len(getAgent(id).tools) }

\* C18: every tool call executed in an agent's loop has a name of that
\* agent's tool list; in particular no write_file, update_file or
\* delete_file is executed in a loop of the architect, whose list holds no
\* write tool.
C18_ToolsAreAllowed ==
  Executing =>
    /\ loop.toolCalls[loop.i].name \in AllowedTools(loop.currentAgentId)
    /\ (loop.currentAgentId = "architect") =>
          loop.toolCalls[loop.i].name \notin {"write_file", "update_file", "delete_file"}

(***************************************************************************)
(* Properties of the response parsers.                                     *)
(***************************************************************************)
\* The response has been parsed and its iteration is not over.
Parsed == pc \in {"exec", "tool", "after_tool", "refresh", "persist"}

\* An encoded argument string, deserialized.
Deserialized(a) ==
  IF a.tag = "json" THEN a.obj
  ELSE IF a.tag = "empty" THEN EmptyObj
  ELSE ("_raw" :> a.text)

\* The segments that are neither a sentinel block nor a reasoning block.
Visible(segs) == SelectSeq(segs, LAMBDA x : x.kind \in {"text", "tools"})

\* C19: for a raw response with a well-formed TOOL_CALLS block,
\* parseToolCalls returns exactly the encoded calls, in order, with their
\* arguments deserialized, and the text it returns holds no part of the
\* block; this for every argument content, content with '-->' included.
C19_SentinelRoundTrip ==
  (Parsed /\ HasKind(loop.rawContent, "sentinel")) =>
     LET encoded == FirstOfKind(loop.rawContent, "sentinel").calls
     IN /\ Len(loop.toolCalls) = Len(encoded)
        /\ \A n \in 1..Len(encoded) :
              /\ loop.toolCalls[n].id = encoded[n].id
              /\ loop.toolCalls[n].name = encoded[n].name
              /\ loop.toolCalls[n].arguments = Deserialized(encoded[n].arguments)
        /\ loop.parsedContent = Render(Visible(loop.rawContent))

\* C20: while the raw text received so far holds a <think> or <thinking>
\* opening tag without its closing tag, the content shown for the in-flight
\* message holds nothing from that opening tag onward: it is the text
\* received before the tag, without the closed reasoning blocks.
C20_OpenThinkingHidden ==
  (pc = "read" /\ \E n \in 1..Len(loop.rawContent) : IsOpen(loop.rawContent[n])) =>
     LET open == CHOOSE n \in 1..Len(loop.rawContent) : IsOpen(loop.rawContent[n])
         before == SubSeq(loop.rawContent, 1, open - 1)
     IN \A n \in AssistantMessages :
          messages[n].id = loop.assistantMessageId =>
            /\ messages[n].isStreaming
            /\ messages[n].content = Render(Visible(before))

C20_Witness ==
  /\ pc = "read"
  /\ Len(loop.rawContent) = 2
  /\ loop.rawContent[2].kind = "thinking_open"
  /\ \E n \in AssistantMessages :
        messages[n].id = loop.assistantMessageId /\ messages[n].content = "intro"

(***************************************************************************)
(* Properties of overlapping sendMessage calls.                            *)
(***************************************************************************)
\* C13: a sendMessage call that was generating when stopGeneration was
\* called starts no model request and takes no chunk of a response body
\* after that, also when an earlier stopped call ends (its completion or
\* its catch block runs) after this call began.
C13_StopEndsRequests == ~hist.late /\ ~bg.hist.late

\* The tool calls of the conversation whose status is running.
RunningCalls ==
  { c \in UNION { {n} \X (1..Len(messages[n].toolCalls)) : n \in 1..Len(messages) } :
      messages[c[1]].toolCalls[c[2]].status = "running" }

\* C15: at every moment at most one tool call of the conversation has the
\* status running, also when a call is stopped during a tool and the next
\* sendMessage begins before the stopped call has returned.
C15_OneToolAtATime == Cardinality(RunningCalls) <= 1

\* The assistant rows of the persisted messages.
AssistantRows(rows) == SelectSeq(rows, LAMBDA r : r.role = "assistant")

\* C33: while isLoading is false no sendMessage call is still executing:
\* no tool call of a call that began earlier starts, no assistant message
\* is persisted, and neither the end of the call nor its catch block
\* changes isLoading, error or the module's abort controller.
C33_IdleMeansNoSession ==
  [][ ~isLoading =>
        /\ ~(pc = "exec" /\ pc' = "tool")
        /\ AssistantRows(db') = AssistantRows(db)
        /\ pc \in {"orch", "catch"} /\ pc' = "done" =>
             /\ isLoading' = isLoading
             /\ error' = error
             /\ abortController' = abortController ]_vars

\* C34: once clearHistory has returned with success, the messages table
\* has no row written by the sendMessage call that began before
\* clearHistory was called; and no row has the id of a message that
\* deleteMessage removed.
C34_DeletionsAreDurable ==
  /\ (panel.clear = "returned" /\ panel.clearTurn = turn.n /\ turn.n > 0) => db = <<>>
  /\ \A id \in panel.deleted : RowsOf(id) = {}

\* C35: every message of the store belongs to the project messagesProjectId
\* names, also when fetchMessages of another project returns while a
\* sendMessage call is running.
C35_MessagesOfOneProject ==
  \A n \in 1..Len(messages) : ProjectOf(messages[n].id) = messagesProjectId

(***************************************************************************)
(* Properties of the text a message shows.                                 *)
(***************************************************************************)
\* The segments before the first one that satisfies the test.
Before(segs, Test(_)) ==
  IF \E n \in 1..Len(segs) : Test(segs[n])
    THEN SubSeq(segs, 1, (CHOOSE n \in 1..Len(segs) :
                            Test(segs[n]) /\ \A m \in 1..(n-1) : ~Test(segs[m])) - 1)
    ELSE segs

\* The message of the running iteration.
InFlight == { n \in 1..Len(messages) : messages[n].id = loop.assistantMessageId }

\* C26: when the stream has ended and the raw text holds a <think> or
\* <thinking> opening tag without its closing tag, the finalized content of
\* the iteration's message and the loop's last clean content hold nothing
\* from that tag onward.
C26_UnterminatedThinkingHidden ==
  (Parsed /\ \E n \in 1..Len(loop.rawContent) : IsOpen(loop.rawContent[n])) =>
     LET shown == Render(Visible(Before(loop.rawContent, IsOpen)))
     IN /\ loop.lastContent = shown
        /\ \A n \in InFlight : messages[n].content = shown

\* A sentinel block, whole or in part.
IsSentinel(s) == s.kind \in {"sentinel", "sentinel_part"}

\* C27: at every point of the streaming, however the body is cut into
\* chunks, the content shown for the in-flight message holds no character
\* of the trailing TOOL_CALLS block: it is made of the segments received
\* before the block.
C27_SentinelNeverShown ==
  (pc = "read" /\ \E n \in 1..Len(loop.rawContent) : IsSentinel(loop.rawContent[n])) =>
     \A n \in InFlight :
       messages[n].content =
         Render(Visible(Before(Before(loop.rawContent, IsSentinel), IsOpen)))

(***************************************************************************)
(* Properties of the history a loop sends to the model.                    *)
(***************************************************************************)
\* The user message that lists the executed calls: each call's id with its
\* result text, in the order of execution.
ListedOutcomes(outs) ==
  << "Tool execution finished, results:\n\n" >>
  \o JoinWith([n \in 1..Len(outs) |->
                 "### " \o outs[n].id \o "\n" \o OrElse(outs[n].text, "")], "\n\n")
  \o << "\n\nContinue from these results." >>

\* The iteration's message is stored and the loop prepares its next round.
EndsIteration == pc = "persist" /\ pc' = "loop_head"

\* C29: an iteration with tool calls and no delegation extends the history
\* for the next model call by exactly two messages, the assistant's clean
\* text of the iteration and one user message that lists every tool call's
\* id with its result text in execution order; no other step of the
\* iteration changes the history.
C29_HistoryGrowsByTwo ==
  [][ /\ (EndsIteration /\ loop.toolCalls # <<>> /\ loop.pendingDelegations = <<>>) =>
          /\ [n \in 1..Len(hist.outs) |-> hist.outs[n].id]
               = [n \in 1..Len(loop.toolCalls) |-> loop.toolCalls[n].id]
          /\ \A n \in InFlight :
               loop'.conversationMessages =
                 loop.conversationMessages
                 \o << [role |-> "assistant", content |-> << messages[n].content >>],
                        [role |-> "user", content |-> ListedOutcomes(hist.outs)] >>
      /\ (pc \in {"loop_head", "fetch", "read", "exec", "tool", "after_tool", "refresh"}
            /\ pc' \in {"loop_head", "fetch", "read", "exec", "tool", "after_tool",
                         "refresh", "persist", "snapshot", "return", "catch"}) =>
          loop'.conversationMessages = loop.conversationMessages
    ]_vars

C29_Witness ==
  /\ pc = "fetch"
  /\ loop.loopCount = 2
  /\ Len(loop.conversationMessages) = 3
  /\ loop.conversationMessages[3].role = "user"
  /\ Len(loop.conversationMessages[3].content) = 5

(***************************************************************************)
(* Properties of turns that follow one another and of a reload.            *)
(***************************************************************************)
\* C23: a message without a mention is answered by the agent that initiated
\* the turn before it, whether that turn completed, was cancelled or
\* failed, and by the default agent when there is no turn before it.
C23_MentionlessFollowsPreviousTurn ==
  (turn.n >= 1 /\ turn.mention = "none") =>
     send.agentId = IF turn.prev = "none" THEN DEFAULT_AGENT_ID ELSE turn.prev

\* The messages of the list with the id.
WithId(msgs, id) == { n \in 1..Len(msgs) : msgs[n].id = id }

\* The ids, names and arguments of a list of tool calls, in order.
CallsOf(toolCalls) ==
  [n \in 1..Len(toolCalls) |->
     [id |-> toolCalls[n].id, name |-> toolCalls[n].name, arguments |-> toolCalls[n].arguments]]

\* C30: for every assistant message the loop persisted, fetchMessages gives
\* the clean content and the tool calls (ids, names, arguments, order) that
\* the live session held for it, every reloaded call in a terminal status.
C30_StorageRoundTrip ==
  (live # <<>> /\ turn.n = 1) =>
     \A r \in 1..Len(db) :
       db[r].role = "assistant" =>
         \A m \in WithId(messages, db[r].id), l \in WithId(live, db[r].id) :
           /\ messages[m].content = live[l].content
           /\ CallsOf(messages[m].toolCalls) = CallsOf(live[l].toolCalls)
           /\ \A k \in 1..Len(messages[m].toolCalls) :
                 messages[m].toolCalls[k].status \in {"completed", "error"}
====
